---- MODULE Spec2Model ----
\* Session orchestration of the code-analysis run:
\* MasterOrchestrator.analyze_folder / _create_session / _process_files
\* (src/src/agents/master_orchestrator.py) driving WorkerAgent.process_file
\* (src/src/agents/worker_agent.py) as asyncio tasks.
EXTENDS Integers, Sequences, FiniteSets, TLC

\* ---------------------------------------------------------------- bounds
MaxFiles == 4
MaxWorkers == 2
MaxBatch == 3

\* ---------------------------------------------------------------- state
VARIABLES
    file_paths,        \* python_files found by discovery, in order
    max_workers,       \* settings.app.max_workers
    batch_size,        \* settings.app.batch_size
    pc,                \* position of the orchestrator coroutine
    exc,               \* exception propagating out of the orchestrator
    current_session,   \* MasterOrchestrator.current_session (id or NoSession)
    status,            \* AnalysisSession.status
    total_files,       \* AnalysisSession.total_files
    processed_files,   \* AnalysisSession.processed_files
    failed_files,      \* AnalysisSession.failed_files
    worker_results,    \* AnalysisSession.worker_results
    end_time,          \* AnalysisSession.end_time
    now,               \* datetime.now()
    db_session,        \* row of code_refactor.analysis_sessions
    progress_updates,  \* completed calls of _update_session_progress
    workers,           \* local list `workers` of _process_files
    i,                 \* loop variable of the batch loop
    tasks,             \* every asyncio task created so far, in creation order
    batch_results,     \* local `batch_results`
    r,                 \* position of the fold loop in batch_results
    all_results,       \* local `all_results`
    \* one invocation of WorkerAgent.process_file, stage by stage
    w_file_path,       \* the file_path argument
    w_pc,              \* position inside process_file
    w_trace,           \* stages run so far, each with its outcome
    w_rules,           \* rag_context.relevant_rules
    w_response,        \* llm_response_text
    w_violations,      \* local `violations`
    w_result,          \* the WorkerResult returned
    w_file_rows,       \* rows of code_refactor.file_analysis of the session
    w_violation_rows,  \* rows of code_refactor.code_violations
    w_store_errors,    \* store errors logged by the worker's store helpers
    \* one call of DiffGenerator._parse_violations_to_fixes
    f_pc,              \* "input" before the call, "done" after it
    f_lines,           \* file_content.split('\n')
    f_violations,      \* the violations argument
    f_fixes,           \* the returned list of CodeFix
    \* one call of DiffGenerator.generate_diffs and create_summary_report
    d_pc,              \* "input", "generated" after generate_diffs, "reported"
    d_result,          \* the WorkerResult in worker_results
    d_lines,           \* original_content.split('\n') of the result's file
    d_fixes,           \* local `fixes` of generate_file_diff
    d_modified,        \* local `modified_content`
    d_diff,            \* local `diff_content`
    d_diff_files,      \* the list generate_diffs returns
    d_summary,         \* summary['summary'] of create_summary_report
    d_io_errors,       \* failed reads and writes of files and directories
    \* the loop of main.analyze_folder over GitManager.apply_diff_file
    p_diffs,           \* the diff files of diff_files, each with its content
    p_k,               \* position of `for diff_file in diff_files`
    p_state,           \* where the application of diff p_k stands
    p_trace,           \* per diff started, the states its application took
    p_tree,            \* the file of the working tree the diffs name
    p_repo             \* GitManager.repo is set

wvars == <<w_file_path, w_pc, w_trace, w_rules, w_response, w_violations, w_result,
           w_file_rows, w_violation_rows, w_store_errors>>
fvars == <<f_pc, f_lines, f_violations, f_fixes>>
dvars == <<d_pc, d_result, d_lines, d_fixes, d_modified, d_diff, d_diff_files,
           d_summary, d_io_errors>>
pvars == <<p_diffs, p_k, p_state, p_trace, p_tree, p_repo>>

vars == <<file_paths, max_workers, batch_size, pc, exc, current_session,
          status, total_files, processed_files, failed_files, worker_results,
          end_time, now, db_session, progress_updates, workers, i, tasks,
          batch_results, r, all_results, wvars, fvars, dvars, pvars>>

NoSession == 0
NoTime == 0
NoRow == [status |-> "none", processed_files |-> 0, failed_files |-> 0]

\* ---------------------------------------------------------------- helpers
Min(a, b) == IF a < b THEN a ELSE b

\* Python slice s[lo:hi] of a list (0-based, hi exclusive, clipped).
Slice(s, lo, hi) == SubSeq(s, lo + 1, Min(hi, Len(s)))

\* WorkerResult as the orchestrator sees it; kind "exception" is an
\* Exception instance returned by gather, kind "none" a task not finished.
WorkerResult(worker_id, file_path, success) ==
    [kind |-> "result", worker_id |-> worker_id, file_path |-> file_path,
     success |-> success]
RaisedException ==
    [kind |-> "exception", worker_id |-> 0, file_path |-> 0, success |-> FALSE]
NoResult ==
    [kind |-> "none", worker_id |-> 0, file_path |-> 0, success |-> FALSE]

\* worker_id = f"worker_{i+1:02d}" for i in range(max_workers)
WorkerId(k) == k + 1

\* worker_idx = j % len(workers)
WorkerIdxShifted(j, nworkers) == (j + 1) % nworkers
WorkerIdx(j, nworkers) == j % nworkers

\* range(0, len(file_paths), batch_size): the next value of the loop variable
NextOffset(offset, step) == offset + step

\* WorkerAgent.process_file: the outer try returns success=True when parsing
\* and context retrieval succeed (a model failure falls back to rule-based
\* violations), the outer except returns success=False; it never re-raises.
process_file_reraise(worker_id, file_path, parse_ok, rag_ok, llm_ok) ==
    IF parse_ok /\ rag_ok
    THEN WorkerResult(worker_id, file_path, TRUE)
    ELSE RaisedException
process_file(worker_id, file_path, parse_ok, rag_ok, llm_ok) ==
    IF parse_ok /\ rag_ok
    THEN WorkerResult(worker_id, file_path, TRUE)
    ELSE WorkerResult(worker_id, file_path, FALSE)

\* asyncio.gather(*tasks, return_exceptions=True)
return_exceptions_off == FALSE
return_exceptions == TRUE

\* gather returns once every awaited task has finished
GatherReadyNoWait(ts) == TRUE
GatherReady(ts) == \A k \in DOMAIN ts : ts[k].state = "done"

\* The fold over batch_results: isinstance(result, Exception) counts one
\* failed file; a WorkerResult counts one processed or one failed file.
IsException(result) == result.kind = "exception"

FailedDeltaNoException(result) ==
    IF IsException(result) THEN 0 ELSE IF result.success THEN 0 ELSE 1
FailedDelta(result) ==
    IF IsException(result) THEN 1 ELSE IF result.success THEN 0 ELSE 1

ProcessedDeltaAlways(result) ==
    IF IsException(result) THEN 0 ELSE 1
ProcessedDelta(result) ==
    IF IsException(result) THEN 0 ELSE IF result.success THEN 1 ELSE 0

\* Which store helpers re-raise a store error after logging it.
StoreErrorPropagatesAll(fn) == TRUE
StoreErrorPropagates(fn) ==
    fn \in {"_create_session", "_create_file_analysis_records"}

\* ------------------------------------------------- worker pipeline data
MaxRules == 2
MaxResponseLines == 2
\* files of the session around one worker call
MaxSessionFiles == 2

\* Bounded sequences over a set.
SeqsUpTo(S, n) == UNION {[1..k -> S] : k \in 0..n}

\* Optional values of a Python dict entry / nullable column.
NoneLine == [is_none |-> TRUE, n |-> 0]
Line(n) == [is_none |-> FALSE, n |-> n]
NoneText == [is_none |-> TRUE, text |-> <<>>]
Text(t) == [is_none |-> FALSE, text |-> t]

\* A violation dict; a key the dict does not have reads as None / ''.
Violation(rule_id, description, severity, fix, confidence, line) ==
    [rule_id |-> rule_id, violation_description |-> description,
     severity |-> severity, suggested_fix |-> fix,
     problematic_code |-> <<>>,
     confidence_score |-> confidence, line_number |-> line]

\* RelevantRule as retrieved; similarity in hundredths.
RuleIds == {"R1", "R2"}
Similarities == {30, 90}
Rule(id, sim) ==
    [rule_id |-> id, title |-> <<"title ", id>>,
     description |-> <<"description ", id>>, severity |-> "high",
     similarity |-> sim]
RuleLists ==
    {rl \in SeqsUpTo({Rule(id, sim) : id \in RuleIds, sim \in Similarities},
                     MaxRules) :
        \A a, b \in DOMAIN rl : a # b => rl[a].rule_id # rl[b].rule_id}

\* The except branch of process_file: one violation per retrieved rule.
FallbackViolationsAtFirstLine(rules) ==
    [k \in DOMAIN rules |->
        Violation(rules[k].rule_id,
                  <<"Potential violation of: ">> \o rules[k].title,
                  rules[k].severity, Text(rules[k].description),
                  rules[k].similarity, Line(1))]
FallbackViolationsFixedConfidence(rules) ==
    [k \in DOMAIN rules |->
        Violation(rules[k].rule_id,
                  <<"Potential violation of: ">> \o rules[k].title,
                  rules[k].severity, Text(rules[k].description),
                  50, NoneLine)]
FallbackViolations(rules) ==
    [k \in DOMAIN rules |->
        Violation(rules[k].rule_id,
                  <<"Potential violation of: ">> \o rules[k].title,
                  rules[k].severity, Text(rules[k].description),
                  rules[k].similarity, NoneLine)]

\* Model responses: text as a sequence of tokens, "\n" separating lines.
\* "- " and "* " are the two-character bullet prefixes, "w" any other word.
ResponseLineShapes ==
    {<<"w">>, <<"- ", "w">>, <<"* ", "w">>, <<" ", "- ", "w", " ">>,
     <<"- ", "{", "w", "}">>, <<"{">>, <<"}">>, <<"{", "}">>, <<"- ">>}

RECURSIVE JoinLines(_)
JoinLines(ls) ==
    IF Len(ls) = 0 THEN <<>>
    ELSE IF Len(ls) = 1 THEN ls[1]
    ELSE ls[1] \o <<"\n">> \o JoinLines(Tail(ls))

ResponseTexts ==
    {JoinLines(ls) : ls \in SeqsUpTo(ResponseLineShapes, MaxResponseLines)}

\* str.find / str.rfind on the token sequence (0-based, -1 when absent).
Find(t, c) ==
    IF \E k \in DOMAIN t : t[k] = c
    THEN (CHOOSE k \in DOMAIN t :
            t[k] = c /\ \A j \in DOMAIN t : t[j] = c => k <= j) - 1
    ELSE -1
RFind(t, c) ==
    IF \E k \in DOMAIN t : t[k] = c
    THEN (CHOOSE k \in DOMAIN t :
            t[k] = c /\ \A j \in DOMAIN t : t[j] = c => k >= j) - 1
    ELSE -1

\* response[json_start:json_end] is attempted as JSON
HasJsonSpan(t) == Find(t, "{") >= 0 /\ RFind(t, "}") + 1 > Find(t, "{")

\* What json.loads makes of the delimited span: it raises, or yields a dict
\* without "violations", or a dict whose "violations" is null or a list.
JsonViolation1 ==
    Violation("R1", <<"w">>, "low", Text(<<"fix">>), 80, Line(1))
JsonViolation2 ==
    Violation("R2", <<"w">>, "high", NoneText, 60, NoneLine)
JsonOutcomes ==
    {[kind |-> "error", violations |-> <<>>],
     [kind |-> "no_key", violations |-> <<>>],
     [kind |-> "null", violations |-> <<>>],
     [kind |-> "list", violations |-> <<>>],
     [kind |-> "list", violations |-> <<JsonViolation1, JsonViolation2>>]}
NoJson == [kind |-> "none", violations |-> <<>>]
Response(t, j) == [text |-> t, json |-> j]
\* A bullet line that starts inside the span makes it invalid JSON ("-"
\* followed by a space is no JSON token and a string holds no raw newline);
\* "{}" is the empty object; any other span may hold anything.
BulletInside(t) ==
    \E k \in (Find(t, "{") + 2)..RFind(t, "}") :
        t[k] \in {"- ", "* "} /\ t[k - 1] \in {"\n", " "}
JsonOutcomesOf(t) ==
    IF ~HasJsonSpan(t) THEN {NoJson}
    ELSE IF SubSeq(t, Find(t, "{") + 1, RFind(t, "}") + 1) = <<"{", "}">>
    THEN {[kind |-> "no_key", violations |-> <<>>]}
    ELSE IF BulletInside(t)
    THEN {[kind |-> "error", violations |-> <<>>]}
    ELSE JsonOutcomes
NoResponse == Response(<<>>, NoJson)

\* response.split('\n')
RECURSIVE SplitLines(_)
SplitLines(t) ==
    IF \E k \in DOMAIN t : t[k] = "\n"
    THEN LET k == Find(t, "\n") + 1
         IN <<SubSeq(t, 1, k - 1)>> \o SplitLines(SubSeq(t, k + 1, Len(t)))
    ELSE <<t>>

\* str.strip(): whitespace goes from both ends.
Whitespace == {" ", "\n"}
RECURSIVE LStrip(_)
LStrip(l) == IF Len(l) > 0 /\ l[1] \in Whitespace THEN LStrip(Tail(l)) ELSE l
RECURSIVE RStrip(_)
RStrip(l) ==
    IF Len(l) > 0 /\ l[Len(l)] \in Whitespace
    THEN RStrip(SubSeq(l, 1, Len(l) - 1))
    ELSE l
Strip(l) == RStrip(LStrip(l))

\* line.startswith('- ') or line.startswith('* '), after strip(): the
\* prefix needs a character after its space.
IsBulletLine(l) == Len(Strip(l)) >= 2 /\ Strip(l)[1] \in {"- ", "* "}

\* The manual extraction loop: one record per bullet line, in order.
RECURSIVE ManualExtract(_)
ManualExtract(ls) ==
    IF Len(ls) = 0 THEN <<>>
    ELSE (IF IsBulletLine(ls[1])
          THEN <<Violation("manual_extract", Tail(Strip(ls[1])), "medium",
                           Text(<<>>), 70, NoneLine)>>
          ELSE <<>>) \o ManualExtract(Tail(ls))

\* The value _parse_llm_response returns: a list, or whatever the JSON held
\* under "violations" (null has no len()).
PyList(items) == [kind |-> "list", items |-> items]
PyNone == [kind |-> "null", items |-> <<>>]

\* WorkerAgent._parse_llm_response
_parse_llm_response(response) ==
    LET t == response.text
        json_start == Find(t, "{")
        json_end == RFind(t, "}") + 1
    IN IF json_start >= 0 /\ json_end > json_start
       THEN CASE response.json.kind = "error" -> PyList(<<>>)
              [] response.json.kind = "list" -> PyList(response.json.violations)
              [] response.json.kind = "null" -> PyNone
              [] OTHER -> PyList(ManualExtract(SplitLines(t)))
       ELSE PyList(ManualExtract(SplitLines(t)))

\* The rows of code_refactor.file_analysis, by file_path.
NoPath == 0
FileRow(st, n, msg) ==
    [analysis_status |-> st, violations_found |-> n, error_message |-> msg]
\* SQL `a = b`: never true when either side is NULL.
SqlEquals(a, b) == a # NoPath /\ b # NoPath /\ a = b
\* _update_file_status binds "file_path": None in its UPDATE ... WHERE.
BoundFilePath(file_path) == NoPath
UpdateFileStatus(rows, file_path, st, n, msg) ==
    [f \in DOMAIN rows |->
        IF SqlEquals(f, BoundFilePath(file_path)) THEN FileRow(st, n, msg)
        ELSE rows[f]]
\* get_session_results: success = (analysis_status == "completed")
Rehydrate(row) == row.analysis_status = "completed"

\* The WorkerResult of process_file with its violations and message.
NoError == <<>>
FullResult(worker_id, file_path, success, violations, error_message) ==
    [kind |-> "result", worker_id |-> worker_id, file_path |-> file_path,
     success |-> success, violations |-> violations,
     error_message |-> error_message]
NoFullResult ==
    [kind |-> "none", worker_id |-> 0, file_path |-> 0, success |-> FALSE,
     violations |-> <<>>, error_message |-> NoError]

WorkerIdle ==
    /\ w_file_path = NoPath
    /\ w_pc = "idle"
    /\ w_trace = <<>>
    /\ w_rules = <<>>
    /\ w_response = NoResponse
    /\ w_violations = PyList(<<>>)
    /\ w_result = NoFullResult
    /\ w_file_rows = <<>>
    /\ w_violation_rows = <<>>
    /\ w_store_errors = 0

FixIdle ==
    /\ f_pc = "idle"
    /\ f_lines = <<>>
    /\ f_violations = <<>>
    /\ f_fixes = <<>>

NoSummary ==
    [total_files_modified |-> 0, total_fixes_applied |-> 0,
     most_common_violations |-> <<>>, fixes_counts |-> <<>>]
DiffIdle ==
    /\ d_pc = "idle"
    /\ d_result = NoFullResult
    /\ d_lines = <<>>
    /\ d_fixes = <<>>
    /\ d_modified = <<>>
    /\ d_diff = <<>>
    /\ d_diff_files = <<>>
    /\ d_summary = NoSummary
    /\ d_io_errors = 0

PatchIdle ==
    /\ p_diffs = <<>>
    /\ p_k = 0
    /\ p_state = "idle"
    /\ p_trace = <<>>
    /\ p_tree = [exists |-> FALSE, lines |-> <<>>]
    /\ p_repo = FALSE

\* ---------------------------------------------------------------- init
\* State after MasterOrchestrator() and discovery input chosen.
Init ==
    /\ \E n \in 0..MaxFiles : file_paths = [k \in 1..n |-> k]
    /\ max_workers \in 1..MaxWorkers
    /\ batch_size \in 1..MaxBatch
    /\ pc = "discover"
    /\ exc = "none"
    /\ current_session = NoSession
    /\ status = "none"
    /\ total_files = 0
    /\ processed_files = 0
    /\ failed_files = 0
    /\ worker_results = <<>>
    /\ end_time = NoTime
    /\ now = 1
    /\ db_session = NoRow
    /\ progress_updates = 0
    /\ workers = <<>>
    /\ i = 0
    /\ tasks = <<>>
    /\ batch_results = <<>>
    /\ r = 1
    /\ all_results = <<>>
    /\ WorkerIdle
    /\ FixIdle
    /\ DiffIdle
    /\ PatchIdle

cfg == <<file_paths, max_workers, batch_size>>
sess == <<current_session, status, total_files, processed_files, failed_files,
          worker_results, end_time, now>>
locals == <<workers, i, tasks, batch_results, r, all_results>>

\* ---------------------------------------------------------------- actions
\* analyze_folder: discovery; no files raises ValueError before any session.
DiscoverNoCheck ==
    /\ pc = "discover"
    /\ pc' = "create_session"
    /\ UNCHANGED <<wvars, fvars, dvars, pvars, cfg, exc, sess, db_session, progress_updates, locals>>
Discover ==
    /\ pc = "discover"
    /\ IF Len(file_paths) = 0
       THEN pc' = "raised" /\ exc' = "ValueError"
       ELSE pc' = "create_session" /\ exc' = exc
    /\ UNCHANGED <<wvars, fvars, dvars, pvars, cfg, sess, db_session, progress_updates, locals>>

\* _create_session: insert the row, build the object, set current_session.
CreateSessionAssignsBeforeInsert ==
    /\ pc = "create_session"
    /\ current_session' = 1
    /\ status' = "in_progress"
    /\ total_files' = Len(file_paths)
    /\ processed_files' = 0
    /\ failed_files' = 0
    /\ worker_results' = <<>>
    /\ \E ok \in BOOLEAN :
        IF ok
        THEN /\ db_session' = [status |-> "in_progress", processed_files |-> 0,
                               failed_files |-> 0]
             /\ pc' = "create_records"
             /\ exc' = exc
        ELSE /\ pc' = "raised"
             /\ exc' = "PersistenceError"
             /\ db_session' = db_session
    /\ UNCHANGED <<wvars, fvars, dvars, pvars, cfg, end_time, now, progress_updates, locals>>
CreateSession ==
    /\ pc = "create_session"
    /\ \E ok \in BOOLEAN :
        IF ok
        THEN /\ db_session' = [status |-> "in_progress", processed_files |-> 0,
                               failed_files |-> 0]
             /\ current_session' = 1
             /\ status' = "in_progress"
             /\ total_files' = Len(file_paths)
             /\ processed_files' = 0
             /\ failed_files' = 0
             /\ worker_results' = <<>>
             /\ pc' = "create_records"
             /\ exc' = exc
        ELSE /\ pc' = "raised"
             /\ exc' = "PersistenceError"
             /\ UNCHANGED <<db_session, current_session, status, total_files,
                            processed_files, failed_files, worker_results>>
    /\ UNCHANGED <<wvars, fvars, dvars, pvars, cfg, end_time, now, progress_updates, locals>>

\* _create_file_analysis_records: a store error is logged and re-raised.
CreateFileAnalysisRecords ==
    /\ pc = "create_records"
    /\ \E ok \in BOOLEAN :
        IF ok \/ ~StoreErrorPropagates("_create_file_analysis_records")
        THEN pc' = "create_workers" /\ exc' = exc
        ELSE pc' = "except" /\ exc' = "PersistenceError"
    /\ UNCHANGED <<wvars, fvars, dvars, pvars, cfg, sess, db_session, progress_updates, locals>>

\* One iteration of the worker-creation loop; worker.initialize() may raise.
CreateWorker ==
    /\ pc = "create_workers"
    /\ \E ok \in BOOLEAN :
        IF ok
        THEN /\ workers' = Append(workers, WorkerId(Len(workers)))
             /\ pc' = IF Len(workers) + 1 = max_workers
                      THEN "loop" ELSE "create_workers"
             /\ exc' = exc
        ELSE /\ pc' = "except"
             /\ exc' = "WorkerInitError"
             /\ workers' = workers
    /\ UNCHANGED <<wvars, fvars, dvars, pvars, cfg, sess, db_session, progress_updates, i, tasks,
                   batch_results, r, all_results>>

\* Head of the batch loop: slice the batch and create one task per file.
CreateTasks ==
    /\ pc = "loop"
    /\ i < Len(file_paths)
    /\ LET batch_files == Slice(file_paths, i, i + batch_size)
           new == [j \in 1..Len(batch_files) |->
                     [file_path |-> batch_files[j],
                      worker_idx |-> WorkerIdx(j - 1, Len(workers)),
                      batch |-> (i \div batch_size) + 1,
                      state |-> "created",
                      result |-> NoResult]]
       IN tasks' = tasks \o new
    /\ pc' = "gather"
    /\ UNCHANGED <<wvars, fvars, dvars, pvars, cfg, exc, sess, db_session, progress_updates, workers, i,
                   batch_results, r, all_results>>

\* The event loop runs tasks only while the orchestrator is suspended.
AwaitPoints == {"gather", "progress", "update_status", "except_update"}

\* A task starts executing process_file (runs to its first await).
TaskStart(k) ==
    /\ pc \in AwaitPoints
    /\ k \in DOMAIN tasks
    /\ tasks[k].state = "created"
    /\ tasks' = [tasks EXCEPT ![k].state = "running"]
    /\ UNCHANGED <<wvars, fvars, dvars, pvars, cfg, pc, exc, sess, db_session, progress_updates, workers,
                   i, batch_results, r, all_results>>

\* A running process_file returns.
TaskFinish(k) ==
    /\ pc \in AwaitPoints
    /\ k \in DOMAIN tasks
    /\ tasks[k].state = "running"
    /\ \E parse_ok \in BOOLEAN, rag_ok \in BOOLEAN, llm_ok \in BOOLEAN :
        tasks' = [tasks EXCEPT
                    ![k].state = "done",
                    ![k].result = process_file(
                        workers[tasks[k].worker_idx + 1], tasks[k].file_path,
                        parse_ok, rag_ok, llm_ok)]
    /\ UNCHANGED <<wvars, fvars, dvars, pvars, cfg, pc, exc, sess, db_session, progress_updates, workers,
                   i, batch_results, r, all_results>>

\* A task whose coroutine is an arbitrary stand-in for process_file: it
\* returns a WorkerResult or ends by raising an Exception.
TaskFinishAny(k) ==
    /\ pc \in AwaitPoints
    /\ k \in DOMAIN tasks
    /\ tasks[k].state = "running"
    /\ \E res \in {WorkerResult(workers[tasks[k].worker_idx + 1],
                                tasks[k].file_path, TRUE),
                   WorkerResult(workers[tasks[k].worker_idx + 1],
                                tasks[k].file_path, FALSE),
                   RaisedException} :
        tasks' = [tasks EXCEPT ![k].state = "done", ![k].result = res]
    /\ UNCHANGED <<wvars, fvars, dvars, pvars, cfg, pc, exc, sess, db_session, progress_updates, workers,
                   i, batch_results, r, all_results>>

\* await asyncio.gather(*tasks, return_exceptions=True) returns.
Gather ==
    /\ pc = "gather"
    /\ LET batch == SubSeq(tasks, i + 1, Len(tasks))
           results == [j \in 1..Len(batch) |-> batch[j].result]
       IN /\ GatherReady(batch)
          /\ IF ~return_exceptions
                /\ \E j \in DOMAIN results : IsException(results[j])
             THEN /\ pc' = "except"
                  /\ exc' = "TaskError"
                  /\ UNCHANGED <<batch_results, r>>
             ELSE /\ batch_results' = results
                  /\ r' = 1
                  /\ pc' = IF Len(results) = 0 THEN "progress" ELSE "fold"
                  /\ exc' = exc
    /\ UNCHANGED <<wvars, fvars, dvars, pvars, cfg, sess, db_session, progress_updates, workers, i, tasks,
                   all_results>>

\* One iteration of `for result in batch_results`.
FoldResult ==
    /\ pc = "fold"
    /\ r <= Len(batch_results)
    /\ LET result == batch_results[r]
       IN /\ all_results' = IF IsException(result) THEN all_results
                            ELSE Append(all_results, result)
          /\ failed_files' = failed_files + FailedDelta(result)
          /\ processed_files' = processed_files + ProcessedDelta(result)
    /\ r' = r + 1
    /\ pc' = IF r = Len(batch_results) THEN "progress" ELSE "fold"
    /\ UNCHANGED <<wvars, fvars, dvars, pvars, cfg, exc, current_session, status, total_files,
                   worker_results, end_time, now, db_session, progress_updates,
                   workers, i, tasks, batch_results>>

\* await self._update_session_progress(session); a store error is swallowed.
UpdateSessionProgress ==
    /\ pc = "progress"
    /\ \E ok \in BOOLEAN :
        IF ok
        THEN /\ db_session' = [db_session EXCEPT
                                 !.processed_files = processed_files,
                                 !.failed_files = failed_files]
             /\ pc' = "loop" /\ exc' = exc
        ELSE /\ db_session' = db_session
             /\ IF StoreErrorPropagates("_update_session_progress")
                THEN pc' = "except" /\ exc' = "PersistenceError"
                ELSE pc' = "loop" /\ exc' = exc
    /\ progress_updates' = progress_updates + 1
    /\ i' = NextOffset(i, batch_size)
    /\ UNCHANGED <<wvars, fvars, dvars, pvars, cfg, sess, workers, tasks, batch_results, r, all_results>>

\* Loop exhausted: session.worker_results / status / end_time are set.
FinalizeFailedIfAnyFileFailed ==
    /\ pc = "loop"
    /\ i >= Len(file_paths)
    /\ worker_results' = all_results
    /\ status' = IF failed_files > 0 THEN "failed" ELSE "completed"
    /\ end_time' = now
    /\ now' = now + 1
    /\ pc' = "update_status"
    /\ UNCHANGED <<wvars, fvars, dvars, pvars, cfg, exc, current_session, total_files, processed_files,
                   failed_files, db_session, progress_updates, locals>>
Finalize ==
    /\ pc = "loop"
    /\ i >= Len(file_paths)
    /\ worker_results' = all_results
    /\ status' = "completed"
    /\ end_time' = now
    /\ now' = now + 1
    /\ pc' = "update_status"
    /\ UNCHANGED <<wvars, fvars, dvars, pvars, cfg, exc, current_session, total_files, processed_files,
                   failed_files, db_session, progress_updates, locals>>

\* await self._update_session_status(session, "completed"), then the summary.
UpdateSessionStatus ==
    /\ pc = "update_status"
    /\ \E ok \in BOOLEAN :
        IF ok
        THEN /\ db_session' = [db_session EXCEPT !.status = "completed"]
             /\ pc' = "returned" /\ exc' = exc
        ELSE /\ db_session' = db_session
             /\ IF StoreErrorPropagates("_update_session_status")
                THEN pc' = "except" /\ exc' = "PersistenceError"
                ELSE pc' = "returned" /\ exc' = exc
    /\ UNCHANGED <<wvars, fvars, dvars, pvars, cfg, sess, progress_updates, locals>>

\* except Exception: status = "failed", end_time = now.
ExceptOnlyReraise ==
    /\ pc = "except"
    /\ pc' = "raised"
    /\ UNCHANGED <<wvars, fvars, dvars, pvars, cfg, exc, sess, db_session, progress_updates, locals>>
Except ==
    /\ pc = "except"
    /\ status' = "failed"
    /\ end_time' = now
    /\ now' = now + 1
    /\ pc' = "except_update"
    /\ UNCHANGED <<wvars, fvars, dvars, pvars, cfg, exc, current_session, total_files, processed_files,
                   failed_files, worker_results, db_session, progress_updates,
                   locals>>

\* await self._update_session_status(session, "failed"); raise.
ExceptUpdateStatus ==
    /\ pc = "except_update"
    /\ \E ok \in BOOLEAN :
        db_session' = IF ok THEN [db_session EXCEPT !.status = "failed"]
                      ELSE db_session
    /\ pc' = "raised"
    /\ UNCHANGED <<wvars, fvars, dvars, pvars, cfg, exc, sess, progress_updates, locals>>

Orchestrator ==
    \/ Discover
    \/ CreateSession
    \/ CreateFileAnalysisRecords
    \/ CreateWorker
    \/ CreateTasks
    \/ Gather
    \/ FoldResult
    \/ UpdateSessionProgress
    \/ Finalize
    \/ UpdateSessionStatus
    \/ Except
    \/ ExceptUpdateStatus

Next ==
    \/ Orchestrator
    \/ \E k \in DOMAIN tasks : TaskStart(k)
    \/ \E k \in DOMAIN tasks : TaskFinish(k)

Spec == Init /\ [][Next]_vars

\* The event loop keeps running whatever is ready: the orchestrator
\* coroutine and every task take their next step when they can.
FairSpec == Spec /\ WF_vars(Next)

\* The orchestrator run against tasks that may also end by raising.
NextAnyTask ==
    \/ Orchestrator
    \/ \E k \in DOMAIN tasks : TaskStart(k)
    \/ \E k \in DOMAIN tasks : TaskFinishAny(k)

SpecAnyTask == Init /\ [][NextAnyTask]_vars

\* ------------------------------------------------- worker pipeline steps
\* The four processing stages of process_file, in the order of its body.
Stages == <<"Parsing", "ContextRetrieval", "ModelAnalysis", "ResultExtraction">>
StageNo(stage) == CHOOSE k \in DOMAIN Stages : Stages[k] = stage

\* Where process_file goes after a stage: an exception in step 1 or 2 reaches
\* the outer except, one in step 3 or 4 the inner except (the fallback).
AfterStageUnconditional(stage, ok) ==
    IF StageNo(stage) < Len(Stages) THEN Stages[StageNo(stage) + 1] ELSE "Done"
AfterStage(stage, ok) ==
    IF ok
    THEN (IF StageNo(stage) < Len(Stages) THEN Stages[StageNo(stage) + 1]
          ELSE "Done")
    ELSE (IF StageNo(stage) <= 2 THEN "Failing" ELSE "Fallback")

\* _update_file_status and _store_violations wrap their body in
\* try/except Exception and only log.
StoreErrorLoggedNever(fn) == FALSE
StoreErrorLogged(fn) == fn \in {"_update_file_status", "_store_violations"}

\* One call of _update_file_status against a store that answers or not.
StatusWrite(rows, file_path, st, n, msg, store_ok) ==
    IF store_ok THEN UpdateFileStatus(rows, file_path, st, n, msg) ELSE rows

\* One call of _store_violations: nothing to do for an empty list, else one
\* row per violation under the file's row, all or nothing.
ViolationRow(file_path, v) ==
    [file_path |-> file_path, rule_id |-> v.rule_id,
     line_number |-> v.line_number, confidence_score |-> v.confidence_score]
StoreViolations(rows, file_rows, file_path, violations, store_ok) ==
    IF violations = <<>> \/ ~store_ok \/ file_path \notin DOMAIN file_rows
    THEN rows
    ELSE rows \o [k \in DOMAIN violations |->
                    ViolationRow(file_path, violations[k])]
\* Store errors raised inside the two helpers of one step.
StoreErrors(violations, store_ok1, store_ok2) ==
    (IF violations # <<>> /\ ~store_ok1 THEN 1 ELSE 0)
        + (IF store_ok2 THEN 0 ELSE 1)
\* Whether one of them leaves its helper.
StoreRaises(violations, store_ok1, store_ok2) ==
    \/ violations # <<>> /\ ~store_ok1 /\ ~StoreErrorLogged("_store_violations")
    \/ ~store_ok2 /\ ~StoreErrorLogged("_update_file_status")

StageEntry(stage, ok) == [stage |-> stage, ok |-> ok]

\* Everything process_file does not touch.
orch == <<cfg, sess, locals, pc, exc, db_session, progress_updates>>

\* Step 1: _update_file_status("analyzing"), then code_parser.parse_file.
W_Parse ==
    /\ w_pc = "Parsing"
    /\ \E store_ok, parse_ok \in BOOLEAN :
        /\ w_file_rows' = StatusWrite(w_file_rows, w_file_path, "analyzing",
                                      0, NoError, store_ok)
        /\ w_store_errors' = w_store_errors + StoreErrors(<<>>, TRUE, store_ok)
        /\ w_trace' = Append(w_trace, StageEntry("Parsing", parse_ok))
        /\ w_pc' = AfterStage("Parsing",
                              parse_ok /\ ~StoreRaises(<<>>, TRUE, store_ok))
    /\ UNCHANGED <<fvars, dvars, pvars, orch>>
    /\ UNCHANGED <<w_file_path, w_rules, w_response, w_violations, w_result,
                   w_violation_rows>>

\* Step 2: rag_system.generate_analysis_context, which re-raises its errors.
W_RetrieveContext ==
    /\ w_pc = "ContextRetrieval"
    /\ \E rag_ok \in BOOLEAN :
        /\ IF rag_ok THEN w_rules' \in RuleLists ELSE w_rules' = w_rules
        /\ w_trace' = Append(w_trace, StageEntry("ContextRetrieval", rag_ok))
        /\ w_pc' = AfterStage("ContextRetrieval", rag_ok)
    /\ UNCHANGED <<fvars, dvars, pvars, orch>>
    /\ UNCHANGED <<w_file_path, w_response, w_violations, w_result,
                   w_file_rows, w_violation_rows, w_store_errors>>

\* Step 3: self.llm.ainvoke inside the inner try.
W_InvokeModel ==
    /\ w_pc = "ModelAnalysis"
    /\ \E llm_ok \in BOOLEAN :
        /\ IF llm_ok
           THEN \E t \in ResponseTexts : \E j \in JsonOutcomesOf(t) :
                    w_response' = Response(t, j)
           ELSE w_response' = w_response
        /\ w_trace' = Append(w_trace, StageEntry("ModelAnalysis", llm_ok))
        /\ w_pc' = AfterStage("ModelAnalysis", llm_ok)
    /\ UNCHANGED <<fvars, dvars, pvars, orch>>
    /\ UNCHANGED <<w_file_path, w_rules, w_violations, w_result, w_file_rows,
                   w_violation_rows, w_store_errors>>

\* Step 4: _parse_llm_response, _store_violations,
\* _update_file_status("completed", len(violations)), then the result.
\* len() of a null "violations" raises inside the inner try.
W_ExtractResults ==
    /\ w_pc = "ResultExtraction"
    /\ LET v == _parse_llm_response(w_response)
       IN /\ w_violations' = v
          /\ IF v.kind = "list"
             THEN \E store_ok1, store_ok2 \in BOOLEAN :
                    LET raised == StoreRaises(v.items, store_ok1, store_ok2)
                    IN /\ w_violation_rows' =
                            StoreViolations(w_violation_rows, w_file_rows,
                                            w_file_path, v.items, store_ok1)
                       /\ w_file_rows' =
                            StatusWrite(w_file_rows, w_file_path, "completed",
                                        Len(v.items), NoError, store_ok2)
                       /\ w_store_errors' = w_store_errors
                            + StoreErrors(v.items, store_ok1, store_ok2)
                       /\ w_trace' = Append(w_trace,
                            StageEntry("ResultExtraction", TRUE))
                       /\ w_pc' = AfterStage("ResultExtraction", ~raised)
                       /\ w_result' =
                            IF raised THEN w_result
                            ELSE FullResult(WorkerId(0), w_file_path, TRUE,
                                            v.items, NoError)
             ELSE /\ w_trace' = Append(w_trace,
                                       StageEntry("ResultExtraction", FALSE))
                  /\ w_pc' = AfterStage("ResultExtraction", FALSE)
                  /\ UNCHANGED <<w_result, w_file_rows, w_violation_rows,
                                 w_store_errors>>
    /\ UNCHANGED <<fvars, dvars, pvars, orch>>
    /\ UNCHANGED <<w_file_path, w_rules, w_response>>

\* The inner except: rule-based violations, stored and reported as completed.
W_Fallback ==
    /\ w_pc = "Fallback"
    /\ LET v == FallbackViolations(w_rules)
       IN \E store_ok1, store_ok2 \in BOOLEAN :
            LET raised == StoreRaises(v, store_ok1, store_ok2)
            IN /\ w_violations' = PyList(v)
               /\ w_violation_rows' =
                    StoreViolations(w_violation_rows, w_file_rows,
                                    w_file_path, v, store_ok1)
               /\ w_file_rows' =
                    StatusWrite(w_file_rows, w_file_path, "completed",
                                Len(v), NoError, store_ok2)
               /\ w_store_errors' = w_store_errors
                    + StoreErrors(v, store_ok1, store_ok2)
               /\ w_pc' = IF raised THEN "Failing" ELSE "Done"
               /\ w_result' =
                    IF raised THEN w_result
                    ELSE FullResult(WorkerId(0), w_file_path, TRUE, v, NoError)
    /\ UNCHANGED <<fvars, dvars, pvars, orch>>
    /\ UNCHANGED <<w_file_path, w_trace, w_rules, w_response>>

\* The outer except: _update_file_status("failed", 0, error_msg) under its
\* own try/except, then the failure result.
W_Fail ==
    /\ w_pc = "Failing"
    /\ LET error_msg == <<"Worker processing failed: ",
                          w_trace[Len(w_trace)].stage>>
       IN \E store_ok \in BOOLEAN :
            /\ w_file_rows' = StatusWrite(w_file_rows, w_file_path, "failed",
                                          0, error_msg, store_ok)
            /\ w_store_errors' = w_store_errors
                    + StoreErrors(<<>>, TRUE, store_ok)
            /\ w_result' = FullResult(WorkerId(0), w_file_path, FALSE, <<>>,
                                      error_msg)
            /\ w_pc' = "Failed"
    /\ UNCHANGED <<fvars, dvars, pvars, orch>>
    /\ UNCHANGED <<w_file_path, w_trace, w_rules, w_response, w_violations,
                   w_violation_rows>>

\* The orchestrator at rest in `await asyncio.gather`, its session created
\* and its per-file rows inserted as pending.
OrchestratorParked ==
    /\ file_paths = [k \in 1..MaxSessionFiles |-> k]
    /\ max_workers = 1
    /\ batch_size = 1
    /\ pc = "parked"
    /\ exc = "none"
    /\ current_session = 1
    /\ status = "running"
    /\ total_files = Len(file_paths)
    /\ processed_files = 0
    /\ failed_files = 0
    /\ worker_results = <<>>
    /\ end_time = NoTime
    /\ now = 1
    /\ db_session = NoRow
    /\ progress_updates = 0
    /\ workers = <<>>
    /\ i = 0
    /\ tasks = <<>>
    /\ batch_results = <<>>
    /\ r = 1
    /\ all_results = <<>>

WorkerInit ==
    /\ OrchestratorParked
    /\ FixIdle
    /\ DiffIdle
    /\ PatchIdle
    /\ w_file_path \in {file_paths[k] : k \in DOMAIN file_paths}
    /\ w_pc = "Parsing"
    /\ w_trace = <<>>
    /\ w_rules = <<>>
    /\ w_response = NoResponse
    /\ w_violations = PyList(<<>>)
    /\ w_result = NoFullResult
    /\ w_file_rows = [f \in DOMAIN file_paths |-> FileRow("pending", 0, NoError)]
    /\ w_violation_rows = <<>>
    /\ w_store_errors = 0

WorkerNext ==
    \/ W_Parse
    \/ W_RetrieveContext
    \/ W_InvokeModel
    \/ W_ExtractResults
    \/ W_Fallback
    \/ W_Fail

WorkerSpec == WorkerInit /\ [][WorkerNext]_vars

\* ------------------------------------------------- fix synthesizer
MaxLines == 2
MaxViolations == 2

\* Lines of a file, as sequences of characters.
FileLines == {<<"a">>, <<" ", "a", " ">>}
FileLineLists == {ls \in SeqsUpTo(FileLines, MaxLines) : Len(ls) >= 1}

\* The violations handed to the synthesizer: any line number, and a
\* suggested fix that is null, empty or indented text; "p" is problematic
\* code, the description names no heuristic keyword.
FixViolation(line, fix, problematic_code) ==
    [rule_id |-> "R1", violation_description |-> <<"w">>,
     severity |-> "medium", suggested_fix |-> fix,
     problematic_code |-> problematic_code,
     confidence_score |-> 80, line_number |-> line]
FixViolations ==
    {FixViolation(line, sp[1], sp[2]) :
        line \in {NoneLine} \cup {Line(n) : n \in (-1)..(MaxLines + 1)},
        sp \in {<<NoneText, <<>>>>, <<Text(<<>>), <<>>>>,
                <<Text(<<>>), <<"p">>>>, <<Text(<<" ", "b">>), <<>>>>}}

CodeFix(file_path, line_number, original_code, fixed_code, violation) ==
    [kind |-> "fix", file_path |-> file_path, line_number |-> line_number,
     original_code |-> original_code, fixed_code |-> fixed_code,
     violation_description |-> violation.violation_description,
     rule_id |-> violation.rule_id,
     confidence_score |-> violation.confidence_score]
NoFix ==
    [kind |-> "none", file_path |-> 0, line_number |-> 0,
     original_code |-> <<>>, fixed_code |-> <<>>,
     violation_description |-> <<>>, rule_id |-> "",
     confidence_score |-> 0]

\* line_number is None or line_number < 1 or line_number > len(lines)
InRangeNoLowerBound(line_number, lines) ==
    ~line_number.is_none /\ line_number.n <= Len(lines)
InRange(line_number, lines) ==
    ~line_number.is_none /\ line_number.n >= 1 /\ line_number.n <= Len(lines)

\* lines[idx] of a Python list: negative indexes count from the end.
HasIndex(lines, idx) == idx >= -Len(lines) /\ idx < Len(lines)
PyIndex(lines, idx) ==
    IF idx < 0 THEN lines[Len(lines) + idx + 1] ELSE lines[idx + 1]

\* _fix_line_length(line, max_length = 88)
max_length == 88

\* len() of a text: every character counts one, "X" stands for a word one
\* character longer than max_length, ", " for comma and space.
RECURSIVE TextLen(_)
TextLen(t) ==
    LET CharWidth(c) ==
            IF c = "X" THEN max_length + 1 ELSE IF c = ", " THEN 2 ELSE 1
    IN IF Len(t) = 0 THEN 0 ELSE CharWidth(t[1]) + TextLen(Tail(t))

\* 'keyword' in violation_description.lower()
Mentions(violation_description, keyword) ==
    \E k \in DOMAIN violation_description :
        violation_description[k] = keyword

Spaces(n) == [k \in 1..n |-> " "]

\* _fix_indentation: indentation rounded down to a multiple of 4 (no tabs).
_fix_indentation(line) ==
    LET stripped == LStrip(line)
    IN IF stripped # <<>>
       THEN Spaces(4 * ((TextLen(line) - TextLen(stripped)) \div 4))
                \o stripped
       ELSE line

\* _fix_spacing on lines without operators or parentheses and with a space
\* after every comma: only the trailing whitespace goes.
_fix_spacing(line) == RStrip(line)

\* _fix_imports
_fix_imports(line) ==
    IF Len(Strip(line)) > 0 /\ Strip(line)[1] \in {"import ", "from "}
    THEN Strip(line)
    ELSE line

\* _fix_line_length with max_length = 88: a longer line is broken at the
\* first ", " whose prefix is shorter than max_length (", " is the first
\* break point tried; the lines drawn hold none of the others).
_fix_line_length(line) ==
    IF TextLen(line) <= max_length THEN line
    ELSE LET stripped == Strip(line)
             BreakPoints ==
                {p \in DOMAIN stripped :
                    /\ stripped[p] = ", "
                    /\ TextLen(SubSeq(stripped, 1, p - 1)) < max_length}
         IN IF BreakPoints # {}
            THEN LET p == CHOOSE q \in BreakPoints :
                            \A q2 \in BreakPoints : q <= q2
                 IN SubSeq(stripped, 1, p - 1) \o <<",", "\n">> \o Spaces(4)
                        \o SubSeq(stripped, p + 1, Len(stripped))
            ELSE line

\* _fix_naming_convention on lines without camelCase identifiers.
_fix_naming_convention(line, problematic_code) == line

\* The keyword dispatch, and the default: original_line.rstrip() + '\n'.
_generate_auto_fix(original_line, problematic_code, violation_description) ==
    IF Mentions(violation_description, "indentation")
    THEN _fix_indentation(original_line)
    ELSE IF Mentions(violation_description, "space")
    THEN _fix_spacing(original_line)
    ELSE IF Mentions(violation_description, "import")
    THEN _fix_imports(original_line)
    ELSE IF Mentions(violation_description, "line too long")
    THEN _fix_line_length(original_line)
    ELSE IF Mentions(violation_description, "naming")
            \/ Mentions(violation_description, "convention")
    THEN _fix_naming_convention(original_line, problematic_code)
    ELSE RStrip(original_line) \o <<"\n">>

\* IndexError and the AttributeError of None.strip() end in `return None`.
_create_fix_from_violation(violation, lines, file_path) ==
    IF ~InRange(violation.line_number, lines) THEN NoFix
    ELSE IF ~HasIndex(lines, violation.line_number.n - 1) THEN NoFix
    ELSE IF violation.suggested_fix.is_none THEN NoFix
    ELSE LET line_number == violation.line_number.n
             original_line == PyIndex(lines, line_number - 1)
             stripped == Strip(violation.suggested_fix.text)
             problematic_code == Strip(violation.problematic_code)
             suggested_fix ==
                IF stripped # <<>> THEN stripped
                ELSE IF problematic_code # <<>>
                THEN _generate_auto_fix(original_line, problematic_code,
                                        violation.violation_description)
                ELSE <<>>
         IN IF suggested_fix = <<>> THEN NoFix
            ELSE CodeFix(file_path, line_number, original_line,
                         suggested_fix, violation)

\* fixes.sort(key=line_number, reverse=True): stable, equal keys keep their
\* order.
InsertDescending(sorted, fix) ==
    LET before == {k \in DOMAIN sorted :
                     sorted[k].line_number >= fix.line_number}
        n == Cardinality(before)
    IN SubSeq(sorted, 1, n) \o <<fix>> \o SubSeq(sorted, n + 1, Len(sorted))
SortDescendingNone(fixes) == fixes
RECURSIVE SortDescending(_)
SortDescending(fixes) ==
    IF Len(fixes) = 0 THEN <<>>
    ELSE InsertDescending(SortDescending(SubSeq(fixes, 1, Len(fixes) - 1)),
                          fixes[Len(fixes)])

RECURSIVE CollectFixes(_, _, _)
CollectFixes(violations, lines, file_path) ==
    IF Len(violations) = 0 THEN <<>>
    ELSE LET fix == _create_fix_from_violation(violations[1], lines, file_path)
         IN (IF fix.kind = "fix" THEN <<fix>> ELSE <<>>)
                \o CollectFixes(Tail(violations), lines, file_path)

_parse_violations_to_fixes(file_path, violations, lines) ==
    SortDescending(CollectFixes(violations, lines, file_path))

\* One call of _parse_violations_to_fixes on the chosen input.
F_Synthesize ==
    /\ f_pc = "input"
    /\ f_fixes' = _parse_violations_to_fixes(1, f_violations, f_lines)
    /\ f_pc' = "done"
    /\ UNCHANGED <<f_lines, f_violations, wvars, dvars, pvars, orch>>

FixInit ==
    /\ OrchestratorParked
    /\ WorkerIdle
    /\ DiffIdle
    /\ PatchIdle
    /\ f_pc = "input"
    /\ f_lines \in FileLineLists
    /\ f_violations \in SeqsUpTo(FixViolations, MaxViolations)
    /\ f_fixes = <<>>

FixNext == F_Synthesize

FixSpec == FixInit /\ [][FixNext]_vars

\* ------------------------------------------------- diff generator
\* _apply_fixes: each fix overwrites its line with fixed_code.rstrip(), in
\* list order; the lines are joined with '\n'.
RECURSIVE ApplyToLinesFirstWins(_, _)
ApplyToLinesFirstWins(lines, fixes) ==
    IF Len(fixes) = 0 THEN lines
    ELSE LET fix == fixes[Len(fixes)]
             edited ==
                IF 1 <= fix.line_number /\ fix.line_number <= Len(lines)
                THEN [lines EXCEPT ![fix.line_number] = RStrip(fix.fixed_code)]
                ELSE lines
         IN ApplyToLinesFirstWins(edited, SubSeq(fixes, 1, Len(fixes) - 1))
RECURSIVE ApplyToLines(_, _)
ApplyToLines(lines, fixes) ==
    IF Len(fixes) = 0 THEN lines
    ELSE LET fix == fixes[1]
             edited ==
                IF 1 <= fix.line_number /\ fix.line_number <= Len(lines)
                THEN [lines EXCEPT ![fix.line_number] = RStrip(fix.fixed_code)]
                ELSE lines
         IN ApplyToLines(edited, Tail(fixes))
_apply_fixes(original_content, fixes) ==
    JoinLines(ApplyToLines(SplitLines(original_content), fixes))

\* str.splitlines(keepends=True) of a text whose only line break is '\n'.
KeepEnds(content) ==
    LET ls == SplitLines(content)
        n == IF ls[Len(ls)] = <<>> THEN Len(ls) - 1 ELSE Len(ls)
    IN [k \in 1..n |-> IF k < Len(ls) THEN ls[k] \o <<"\n">> ELSE ls[k]]

\* ''.join(...)
RECURSIVE Concat(_)
Concat(strings) ==
    IF Len(strings) = 0 THEN <<>> ELSE strings[1] \o Concat(Tail(strings))

\* difflib.SequenceMatcher.get_matching_blocks, without its final
\* (len(a), len(b), 0) sentinel: find_longest_match (no junk) gives the
\* longest block a[i:i+k] == b[j:j+k] inside the window, earliest in a, then
\* in b, and the window is split around it.
RECURSIVE get_matching_blocks(_, _, _, _, _, _)
get_matching_blocks(a, b, alo, ahi, blo, bhi) ==
    LET find_longest_match(cands) ==
            IF cands = {} THEN <<alo, blo, 0>>
            ELSE CHOOSE c \in cands : \A c2 \in cands :
                    \/ c[3] > c2[3]
                    \/ c[3] = c2[3] /\ c[1] < c2[1]
                    \/ c[3] = c2[3] /\ c[1] = c2[1] /\ c[2] <= c2[2]
        Around(m) ==
            IF m[3] = 0 THEN <<>>
            ELSE get_matching_blocks(a, b, alo, m[1], blo, m[2])
                    \o <<m>>
                    \o get_matching_blocks(a, b, m[1] + m[3], ahi,
                                           m[2] + m[3], bhi)
    IN Around(find_longest_match(
            {c \in (alo..(ahi - 1)) \X (blo..(bhi - 1)) \X (1..Len(a)) :
                /\ c[1] + c[3] <= ahi
                /\ c[2] + c[3] <= bhi
                /\ \A d \in 0..(c[3] - 1) :
                        a[c[1] + d + 1] = b[c[2] + d + 1]}))

\* SequenceMatcher(None, a, b).get_opcodes(): what turns a into b between
\* and on the matching blocks, from (0, 0) to the sentinel.
get_opcodes(a, b) ==
    LET Opcode(tag, i1, i2, j1, j2) ==
            [tag |-> tag, i1 |-> i1, i2 |-> i2, j1 |-> j1, j2 |-> j2]
        \* The opcodes of the gap from (ia, jb) to the block, and of the block.
        OpcodesTo(block, ia, jb) ==
            (IF ia < block[1] /\ jb < block[2]
             THEN <<Opcode("replace", ia, block[1], jb, block[2])>>
             ELSE IF ia < block[1]
             THEN <<Opcode("delete", ia, block[1], jb, block[2])>>
             ELSE IF jb < block[2]
             THEN <<Opcode("insert", ia, block[1], jb, block[2])>>
             ELSE <<>>)
            \o (IF block[3] > 0
                THEN <<Opcode("equal", block[1], block[1] + block[3],
                              block[2], block[2] + block[3])>>
                ELSE <<>>)
        OpcodesOf(blocks) ==
            Concat([k \in DOMAIN blocks |->
                        IF k = 1 THEN OpcodesTo(blocks[k], 0, 0)
                        ELSE OpcodesTo(blocks[k],
                                       blocks[k - 1][1] + blocks[k - 1][3],
                                       blocks[k - 1][2] + blocks[k - 1][3])])
    IN OpcodesOf(get_matching_blocks(a, b, 0, Len(a), 0, Len(b))
                    \o <<<<Len(a), Len(b), 0>>>>)

\* get_grouped_opcodes(n): the leading and trailing equal runs keep n lines;
\* files of at most 2n lines give one group, none when a = b.
get_grouped_opcodes(a, b, n) ==
    LET Larger(x, y) == IF x > y THEN x ELSE y
        TrimFirst(codes) ==
            IF Len(codes) > 0 /\ codes[1].tag = "equal"
            THEN [codes EXCEPT
                    ![1].i1 = Larger(codes[1].i1, codes[1].i2 - n),
                    ![1].j1 = Larger(codes[1].j1, codes[1].j2 - n)]
            ELSE codes
        TrimLast(codes) ==
            IF Len(codes) > 0 /\ codes[Len(codes)].tag = "equal"
            THEN [codes EXCEPT
                    ![Len(codes)].i2 = Min(codes[Len(codes)].i2,
                                           codes[Len(codes)].i1 + n),
                    ![Len(codes)].j2 = Min(codes[Len(codes)].j2,
                                           codes[Len(codes)].j1 + n)]
            ELSE codes
        Groups(group) ==
            IF group = <<>> \/ (Len(group) = 1 /\ group[1].tag = "equal")
            THEN <<>>
            ELSE <<group>>
    IN Groups(TrimLast(TrimFirst(get_opcodes(a, b))))

\* The lines difflib.unified_diff yields with its default n = 3: the two
\* file headers and the hunk header end with lineterm, the content lines
\* keep their own line end.
unified_diff(a, b, file_path, lineterm) ==
    LET _format_range_unified(sign, start, stop) ==
            IF stop - start = 1 THEN sign \o ToString(start + 1)
            ELSE IF stop - start = 0 THEN sign \o ToString(start) \o ",0"
            ELSE sign \o ToString(start + 1) \o ","
                    \o ToString(stop - start)
        HunkHeader(group) ==
            <<"@", "@", " ",
              _format_range_unified("-", group[1].i1, group[Len(group)].i2),
              " ",
              _format_range_unified("+", group[1].j1, group[Len(group)].j2),
              " ", "@", "@">>
        Prefixed(c, lines, lo, hi) ==
            [k \in 1..(hi - lo) |-> <<c>> \o lines[lo + k]]
        OpcodeLines(c) ==
            IF c.tag = "equal" THEN Prefixed(" ", a, c.i1, c.i2)
            ELSE (IF c.tag \in {"replace", "delete"}
                  THEN Prefixed("-", a, c.i1, c.i2) ELSE <<>>)
                 \o (IF c.tag \in {"replace", "insert"}
                     THEN Prefixed("+", b, c.j1, c.j2) ELSE <<>>)
        Lines(groups) ==
            IF groups = <<>> THEN <<>>
            ELSE <<<<"-", "-", "-", " ", "a/", file_path>> \o lineterm,
                   <<"+", "+", "+", " ", "b/", file_path>> \o lineterm,
                   HunkHeader(groups[1]) \o lineterm>>
                    \o Concat([k \in DOMAIN groups[1] |->
                                OpcodeLines(groups[1][k])])
    IN Lines(get_grouped_opcodes(a, b, 3))

\* ''.join(difflib.unified_diff(..., lineterm=''))
_generate_unified_diff(file_path, original_content, modified_content) ==
    Concat(unified_diff(KeepEnds(original_content),
                        KeepEnds(modified_content), file_path, <<>>))

\* The loop of GitManager._parse_diff_content over the lines, and the save
\* of the last file after it: the file -> hunks map, as a list of entries
\* in insertion order.
RECURSIVE ParseLines(_, _)
ParseLines(parsed, lines) ==
    LET StartsWith(line, prefix) ==
            Len(line) >= Len(prefix) /\ SubSeq(line, 1, Len(prefix)) = prefix
        \* changes[current_file] = current_changes
        SetChange(changes, file, hunks) ==
            IF \E k \in DOMAIN changes : changes[k].file = file
            THEN [k \in DOMAIN changes |->
                    IF changes[k].file = file
                    THEN [file |-> file, hunks |-> hunks]
                    ELSE changes[k]]
            ELSE Append(changes, [file |-> file, hunks |-> hunks])
        \* if current_file and current_changes: changes[current_file] = ...
        SaveChanges(st) ==
            IF st.current_file # <<>> /\ st.current_changes # <<>>
            THEN SetChange(st.changes, st.current_file, st.current_changes)
            ELSE st.changes
        \* line[4:].strip()
        HeaderPath(line) == Strip(SubSeq(line, 5, Len(line)))
        \* line.split('@@')[1].strip().split(): the words between the first
        \* two '@@' (each range is one word).
        HunkInfo(line) ==
            LET rest == SubSeq(line, 3, Len(line))
                ends == {k \in 1..(Len(rest) - 1) :
                            rest[k] = "@" /\ rest[k + 1] = "@"}
                stop == IF ends = {} THEN Len(rest) + 1
                        ELSE CHOOSE k \in ends : \A k2 \in ends : k <= k2
            IN SelectSeq(SubSeq(rest, 1, stop - 1),
                         LAMBDA c : c \notin Whitespace)
        ParseLine(st, line) ==
            IF StartsWith(line, <<"-", "-", "-", " ">>)
            THEN [changes |-> SaveChanges(st),
                  current_file |->
                    IF StartsWith(HeaderPath(line), <<"a/">>)
                    THEN Tail(HeaderPath(line)) ELSE HeaderPath(line),
                  current_changes |->
                    IF st.current_file # <<>> /\ st.current_changes # <<>>
                    THEN <<>> ELSE st.current_changes]
            ELSE IF StartsWith(line, <<"+", "+", "+", " ">>)
            THEN [st EXCEPT !.current_file =
                    IF StartsWith(HeaderPath(line), <<"b/">>)
                    THEN Tail(HeaderPath(line)) ELSE @]
            ELSE IF StartsWith(line, <<"@", "@">>)
            THEN IF Len(HunkInfo(line)) >= 2
                 THEN [st EXCEPT !.current_changes =
                        Append(@, [old_range |-> HunkInfo(line)[1],
                                   new_range |-> HunkInfo(line)[2],
                                   lines |-> <<>>])]
                 ELSE st
            ELSE IF st.current_changes # <<>> /\ Len(line) > 0
                    /\ line[1] \in {"+", "-", " "}
            THEN [st EXCEPT !.current_changes[Len(st.current_changes)].lines =
                    Append(@, line)]
            ELSE st
    IN IF Len(lines) = 0 THEN SaveChanges(parsed)
       ELSE ParseLines(ParseLine(parsed, lines[1]), Tail(lines))

_parse_diff_content(diff_content) ==
    ParseLines([changes |-> <<>>, current_file |-> <<>>,
                current_changes |-> <<>>],
               SplitLines(diff_content))

\* The files generate_diffs reads, as str.split('\n') gives them: lines "a"
\* and "a, X" (92 characters), and a last element that is empty when the
\* file ends with a line end or is empty.
DiffContents ==
    {ls \in SeqsUpTo({<<"a">>, <<>>, <<"a", ", ", "X">>}, MaxLines) :
        Len(ls) >= 1 /\ \A k \in 1..(Len(ls) - 1) : ls[k] # <<>>}

\* The violations of a result: an indented suggested fix, one equal to the
\* line "a", none but problematic code (described with no keyword, or as a
\* line too long); at a line number up to the longest file, or at none.
DiffViolations ==
    LET FixShapes ==
            {[fix |-> Text(<<" ", "b">>), code |-> <<>>,
              description |-> <<"w">>],
             [fix |-> Text(<<"a">>), code |-> <<>>, description |-> <<"w">>],
             [fix |-> Text(<<>>), code |-> <<"p">>, description |-> <<"w">>],
             [fix |-> Text(<<>>), code |-> <<"p">>,
              description |-> <<"line too long">>]}
    IN
    {[rule_id |-> "R1", violation_description |-> shape.description,
      severity |-> "medium", suggested_fix |-> shape.fix,
      problematic_code |-> shape.code,
      confidence_score |-> 80, line_number |-> line] :
        line \in {NoneLine} \cup {Line(n) : n \in 1..MaxLines},
        shape \in FixShapes}
\* What process_file returns: violations only with success, those of the
\* model's response or those of the rule-based fallback.
DiffResults ==
    {FullResult(WorkerId(0), "p", TRUE, vs, NoError) :
        vs \in SeqsUpTo(DiffViolations, MaxViolations)}
    \cup {FullResult(WorkerId(0), "p", TRUE, FallbackViolations(rules),
                     NoError) : rules \in RuleLists}
    \cup {FullResult(WorkerId(0), "p", FALSE, <<>>,
                     <<"Worker processing failed: ", "Parsing">>)}

DiffFile(file_path, diff_content, fixes_applied) ==
    [file_path |-> file_path, diff_content |-> diff_content,
     fixes_applied |-> fixes_applied]

\* `if not fixes: return None`
HasFixesUnchecked(fixes) == TRUE
HasFixes(fixes) == fixes # <<>>

\* generate_file_diff: its locals and the DiffFile it returns, if any; a
\* file that cannot be read and a diff or metadata file that cannot be
\* written both end in `return None`.
NoDiff == [fixes |-> <<>>, modified |-> <<>>, diff |-> <<>>, files |-> <<>>]
generate_file_diff(worker_result, lines, read_ok, write_ok) ==
    IF worker_result.violations = <<>> \/ ~read_ok THEN NoDiff
    ELSE LET original_content == JoinLines(lines)
             fixes == _parse_violations_to_fixes(worker_result.file_path,
                        worker_result.violations, SplitLines(original_content))
             modified_content == _apply_fixes(original_content, fixes)
             diff_content ==
                _generate_unified_diff(worker_result.file_path,
                                       original_content, modified_content)
         IN IF ~HasFixes(fixes) THEN NoDiff
            ELSE [fixes |-> fixes, modified |-> modified_content,
                  diff |-> diff_content,
                  files |->
                    IF write_ok
                    THEN <<DiffFile(<<worker_result.file_path, ".diff">>,
                                    diff_content, fixes)>>
                    ELSE <<>>]

\* generate_diffs over the one result (`if result.success and
\* result.violations`): mkdir may raise, which is re-raised.
D_GenerateDiffs ==
    /\ d_pc = "input"
    /\ \E mkdir_ok, read_ok, write_ok \in BOOLEAN :
        IF ~mkdir_ok
        THEN /\ d_pc' = "raised"
             /\ d_io_errors' = d_io_errors + 1
             /\ UNCHANGED <<d_fixes, d_modified, d_diff, d_diff_files>>
        ELSE /\ d_pc' = "generated"
             /\ d_io_errors' = d_io_errors
                    + (IF read_ok /\ write_ok THEN 0 ELSE 1)
             /\ \E out \in {IF d_result.success /\ d_result.violations # <<>>
                             THEN generate_file_diff(d_result, d_lines,
                                                     read_ok, write_ok)
                             ELSE NoDiff} :
                    /\ d_fixes' = out.fixes
                    /\ d_modified' = out.modified
                    /\ d_diff' = out.diff
                    /\ d_diff_files' = out.files
    /\ UNCHANGED <<d_result, d_lines, d_summary, wvars, fvars, pvars, orch>>

\* sum(len(df.fixes_applied) for df in diff_files)
RECURSIVE TotalFixes(_)
TotalFixes(diff_files) ==
    IF Len(diff_files) = 0 THEN 0
    ELSE Len(diff_files[1].fixes_applied) + TotalFixes(Tail(diff_files))

\* rule_counts in the order of the dict, one <<rule id, count>> per rule id
\* in the order the rule ids first occur, and the first ten of them.
most_common_violations_unsorted(diff_files) ==
    LET CountOf(fixes) ==
            [x \in DOMAIN fixes |->
                Cardinality({j \in DOMAIN fixes :
                                fixes[j].rule_id = fixes[x].rule_id})]
        Keys(fixes) ==
            {x \in DOMAIN fixes :
                \A j \in 1..(x - 1) : fixes[j].rule_id # fixes[x].rule_id}
        Items(fixes, counts, keys) ==
            [pos \in 1..Cardinality(keys) |->
                LET key == CHOOSE x \in keys :
                            Cardinality({j \in keys : j <= x}) = pos
                IN <<fixes[key].rule_id, counts[key]>>]
        FirstTen(items) == SubSeq(items, 1, Min(10, Len(items)))
        Report(fixes) ==
            FirstTen(Items(fixes, CountOf(fixes), Keys(fixes)))
    IN Report(Concat([k \in DOMAIN diff_files |->
                        diff_files[k].fixes_applied]))

\* dict(sorted(rule_counts.items(), key=lambda x: x[1], reverse=True)[:10]):
\* rule_counts holds the rule ids in the order they first occur, the sort is
\* stable, so that rule ids of equal count keep that order, and the dict
\* keeps the order of the sorted items.
most_common_violations(diff_files) ==
    LET CountOf(fixes) ==
            [x \in DOMAIN fixes |->
                Cardinality({j \in DOMAIN fixes :
                                fixes[j].rule_id = fixes[x].rule_id})]
        Keys(fixes) ==
            {x \in DOMAIN fixes :
                \A j \in 1..(x - 1) : fixes[j].rule_id # fixes[x].rule_id}
        Rank(counts, keys, x) ==
            Cardinality({j \in keys :
                            \/ counts[j] > counts[x]
                            \/ counts[j] = counts[x] /\ j <= x})
        Sorted(fixes, counts, keys) ==
            [pos \in 1..Cardinality(keys) |->
                LET key == CHOOSE x \in keys : Rank(counts, keys, x) = pos
                IN <<fixes[key].rule_id, counts[key]>>]
        FirstTen(items) == SubSeq(items, 1, Min(10, Len(items)))
        Report(fixes) ==
            FirstTen(Sorted(fixes, CountOf(fixes), Keys(fixes)))
    IN Report(Concat([k \in DOMAIN diff_files |->
                        diff_files[k].fixes_applied]))

\* create_summary_report: the counts; a report that cannot be written is
\* re-raised.
D_CreateSummaryReport ==
    /\ d_pc = "generated"
    /\ \E write_ok \in BOOLEAN :
        IF write_ok
        THEN /\ d_pc' = "reported"
             /\ d_summary' =
                    [total_files_modified |-> Len(d_diff_files),
                     total_fixes_applied |-> TotalFixes(d_diff_files),
                     most_common_violations |->
                        most_common_violations(d_diff_files),
                     fixes_counts |->
                        [k \in DOMAIN d_diff_files |->
                            Len(d_diff_files[k].fixes_applied)]]
             /\ d_io_errors' = d_io_errors
        ELSE /\ d_pc' = "raised"
             /\ d_summary' = d_summary
             /\ d_io_errors' = d_io_errors + 1
    /\ UNCHANGED <<d_result, d_lines, d_fixes, d_modified, d_diff,
                   d_diff_files, wvars, fvars, pvars, orch>>

DiffInit ==
    /\ OrchestratorParked
    /\ WorkerIdle
    /\ FixIdle
    /\ PatchIdle
    /\ d_pc = "input"
    /\ d_result \in DiffResults
    /\ d_lines \in DiffContents
    /\ d_fixes = <<>>
    /\ d_modified = <<>>
    /\ d_diff = <<>>
    /\ d_diff_files = <<>>
    /\ d_summary = NoSummary
    /\ d_io_errors = 0

DiffNext ==
    \/ D_GenerateDiffs
    \/ D_CreateSummaryReport

DiffSpec == DiffInit /\ [][DiffNext]_vars

\* ------------------------------------------------- the summary report
MaxRuleKinds == 11

\* The DiffFiles create_summary_report is given: one fix for each rule id
\* of a set, in ascending or descending order of the rule ids, and one
\* DiffFile more with a second fix for one of them, after the first
\* DiffFile or before it.
SummaryInit ==
    /\ OrchestratorParked
    /\ WorkerIdle
    /\ FixIdle
    /\ PatchIdle
    /\ d_pc = "generated"
    /\ d_result = NoFullResult
    /\ d_lines = <<>>
    /\ d_fixes = <<>>
    /\ d_modified = <<>>
    /\ d_diff = <<>>
    /\ d_summary = NoSummary
    /\ d_io_errors = 0
    /\ \E present \in SUBSET (1..MaxRuleKinds), second \in 0..MaxRuleKinds,
          descending \in BOOLEAN :
        LET Fix(n) ==
                CodeFix("p", 1, <<"a">>, <<"b">>,
                        Violation("R" \o ToString(n), <<"w">>, "medium",
                                  Text(<<"b">>), 80, Line(1)))
            Nth(pos) == CHOOSE n \in present :
                        Cardinality({m \in present : m <= n}) = pos
            Ascending == [pos \in 1..Cardinality(present) |-> Fix(Nth(pos))]
            Descending ==
                [pos \in 1..Cardinality(present) |->
                    Fix(Nth(Cardinality(present) + 1 - pos))]
            First == DiffFile(<<"p", ".diff">>, <<"d">>,
                              IF descending THEN Descending ELSE Ascending)
            Second == DiffFile(<<"q", ".diff">>, <<"d">>, <<Fix(second)>>)
        IN /\ present # {}
           /\ second \in present \cup {0}
           /\ d_diff_files =
                IF second = 0 THEN <<First>>
                ELSE IF descending THEN <<Second, First>>
                ELSE <<First, Second>>

SummarySpec == SummaryInit /\ [][D_CreateSummaryReport]_vars

\* ------------------------------------------------- patch application
MaxDiffs == 2

\* GitManager._apply_hunk: the '-' lines are the deletions, the '+' lines
\* the additions (both without their mark); every file line equal to a
\* deletion up to surrounding whitespace is dropped, and the additions take
\* the place of the first of them. A hunk none of whose deletions is in the
\* file returns the lines as they are.
_apply_hunk(lines, hunk) ==
    LET Marked(mark) ==
            LET marked == SelectSeq(hunk.lines, LAMBDA l : l[1] = mark)
            IN [k \in DOMAIN marked |-> Tail(marked[k])]
        Deleted(line, deletions) ==
            \E k \in DOMAIN deletions : Strip(line) = Strip(deletions[k])
        Replace(deletions, additions) ==
            Concat([k \in DOMAIN lines |->
                     IF ~Deleted(lines[k], deletions) THEN <<lines[k]>>
                     ELSE IF \A j \in 1..(k - 1) : ~Deleted(lines[j], deletions)
                     THEN additions
                     ELSE <<>>])
    IN Replace(Marked("-"), Marked("+"))

\* `for change in changes: lines = self._apply_hunk(lines, change)`
RECURSIVE ApplyHunks(_, _)
ApplyHunks(lines, changes) ==
    IF Len(changes) = 0 THEN lines
    ELSE ApplyHunks(_apply_hunk(lines, changes[1]), Tail(changes))

\* GitManager._apply_file_changes on the file of the working tree: False
\* when the file is missing or cannot be written, else the hunks are applied
\* and the lines written back with writelines (the next readlines splits
\* what was written at its line ends).
_apply_file_changes(tree, file_path, changes, write_ok) ==
    IF ~tree.exists \/ file_path # <<"p">> THEN [ok |-> FALSE, tree |-> tree]
    ELSE IF ~write_ok THEN [ok |-> FALSE, tree |-> tree]
    ELSE [ok |-> TRUE,
          tree |-> [tree EXCEPT !.lines =
                        KeepEnds(Concat(ApplyHunks(tree.lines, changes)))]]

\* The loop of GitManager._apply_diff_manually over the parsed files: the
\* first file that fails ends it with False, the files before it stay
\* written.
RECURSIVE ApplyChanges(_, _, _)
ApplyChanges(tree, changes, write_ok) ==
    LET Continue(out) ==
            IF out.ok THEN ApplyChanges(out.tree, Tail(changes), write_ok)
            ELSE out
    IN IF Len(changes) = 0 THEN [ok |-> TRUE, tree |-> tree]
       ELSE Continue(_apply_file_changes(tree, changes[1].file,
                                         changes[1].hunks, write_ok))

_apply_diff_manually(tree, diff_content, write_ok) ==
    ApplyChanges(tree, _parse_diff_content(diff_content), write_ok)

\* apply_diff_file before `git apply`: RuntimeError without repository and
\* FileNotFoundError (or a failing read) end in `return False`.
AfterStartManualFirst(ok) == "ManualApplyAttempted"
AfterStart(ok) == IF ok THEN "NativeApplyAttempted" ELSE "Failed"

\* apply_diff_file after `git apply`: success returns True, GitCommandError
\* leads to manual application, any other exception to `return False`.
AfterNativeRaises(outcome) ==
    IF outcome = "ok" THEN "Applied"
    ELSE IF outcome = "GitCommandError" THEN "ManualApplyAttempted"
    ELSE "Raised"
AfterNative(outcome) ==
    IF outcome = "ok" THEN "Applied"
    ELSE IF outcome = "GitCommandError" THEN "ManualApplyAttempted"
    ELSE "Failed"

\* apply_diff_file is entered for diff p_k.
P_Start ==
    /\ p_state = "Pending"
    /\ p_k <= Len(p_diffs)
    /\ \E read_ok \in BOOLEAN :
        p_state' = AfterStart(p_repo /\ p_diffs[p_k].exists /\ read_ok)
    /\ p_trace' = [p_trace EXCEPT ![p_k] = Append(@, p_state')]
    /\ UNCHANGED <<p_diffs, p_k, p_tree, p_repo, wvars, fvars, dvars, orch>>

\* self.repo.git.apply(...) returns or raises; what git writes to the file
\* on success is git's own.
P_NativeApply ==
    /\ p_state = "NativeApplyAttempted"
    /\ \E outcome \in {"ok", "GitCommandError", "other"} :
        /\ p_state' = AfterNative(outcome)
        /\ IF outcome = "ok" /\ p_tree.exists
           THEN \E written \in SeqsUpTo({<<"a", "\n">>, <<"b", "\n">>},
                                        MaxLines) :
                    p_tree' = [p_tree EXCEPT !.lines = written]
           ELSE p_tree' = p_tree
    /\ p_trace' = [p_trace EXCEPT ![p_k] = Append(@, p_state')]
    /\ UNCHANGED <<p_diffs, p_k, p_repo, wvars, fvars, dvars, orch>>

\* return self._apply_diff_manually(diff_content)
P_ManualApply ==
    /\ p_state = "ManualApplyAttempted"
    /\ \E write_ok \in BOOLEAN :
        \E out \in {_apply_diff_manually(p_tree, p_diffs[p_k].content,
                                         write_ok)} :
            /\ p_tree' = out.tree
            /\ p_state' = IF out.ok THEN "Applied" ELSE "Failed"
    /\ p_trace' = [p_trace EXCEPT ![p_k] = Append(@, p_state')]
    /\ UNCHANGED <<p_diffs, p_k, p_repo, wvars, fvars, dvars, orch>>

\* apply_diff_file has returned: the loop of analyze_folder goes on to the
\* next diff file, whatever was returned.
P_NextDiff ==
    /\ p_state \in {"Applied", "Failed"}
    /\ p_k <= Len(p_diffs)
    /\ p_k' = p_k + 1
    /\ p_state' = "Pending"
    /\ p_trace' = IF p_k < Len(p_diffs)
                  THEN Append(p_trace, <<"Pending">>) ELSE p_trace
    /\ UNCHANGED <<p_diffs, p_tree, p_repo, wvars, fvars, dvars, orch>>

\* The diff files: a hunk replacing "a" by "b", one replacing "c" (which no
\* file holds) by "b", both hunks in one diff, and the text
\* _generate_unified_diff renders for "a" -> "b"; each may be missing on
\* disk. The file "p" holds lines "a" and "b", or is missing.
PatchInit ==
    /\ OrchestratorParked
    /\ WorkerIdle
    /\ FixIdle
    /\ DiffIdle
    /\ LET Header == <<"-", "-", "-", " ", "a/", "p", "\n",
                       "+", "+", "+", " ", "b/", "p", "\n">>
           Hunk(del) == <<"@", "@", " ", "-1", " ", "+1", " ", "@", "@", "\n",
                          "-", del, "\n", "+", "b", "\n">>
           Contents == {Header \o Hunk("a"), Header \o Hunk("c"),
                        Header \o Hunk("a") \o Hunk("c"),
                        _generate_unified_diff("p", <<"a">>, <<"b">>)}
       IN /\ p_diffs \in SeqsUpTo([exists : BOOLEAN, content : Contents],
                                  MaxDiffs)
          /\ p_diffs # <<>>
    /\ p_k = 1
    /\ p_state = "Pending"
    /\ p_trace = <<<<"Pending">>>>
    /\ p_tree \in [exists : {TRUE},
                   lines : SeqsUpTo({<<"a", "\n">>, <<"b", "\n">>}, MaxLines)]
                  \cup {[exists |-> FALSE, lines |-> <<>>]}
    /\ p_repo \in BOOLEAN

PatchNext ==
    \/ P_Start
    \/ P_NativeApply
    \/ P_ManualApply
    \/ P_NextDiff

PatchSpec == PatchInit /\ [][PatchNext]_vars

\* ---------------------------------------------------------------- properties
Running == {k \in DOMAIN tasks : tasks[k].state = "running"}
Succeeded == {k \in DOMAIN tasks :
                tasks[k].result.kind = "result" /\ tasks[k].result.success}
ReturnedFailure == {k \in DOMAIN tasks :
                      tasks[k].result.kind = "result" /\ ~tasks[k].result.success}
Raised == {k \in DOMAIN tasks : tasks[k].result.kind = "exception"}
\* Positions of the orchestrator after the fold of a batch and before the
\* tasks of the next batch are created.
BatchFolded == {"progress", "loop", "update_status", "returned"}

\* C1: in every state where the session status is completed or failed,
\* processed_files + failed_files equals total_files, however
\* _process_files ended.
C1_CountersCompleteWhenFinalized ==
    status \in {"completed", "failed"}
        => processed_files + failed_files = total_files

\* C2: after the results of batch k have been folded (and at the progress
\* write for batch k) processed_files + failed_files equals the number of
\* files dispatched in batches 1..k, for any mix of successful, failed and
\* exception-raising tasks.
C2_CountersEqualDispatched ==
    pc \in BatchFolded =>
        LET k == IF pc = "progress" THEN progress_updates + 1
                 ELSE progress_updates
        IN /\ processed_files + failed_files = Len(tasks)
           /\ Len(tasks) = Min(k * batch_size, Len(file_paths))

C2_Witness ==
    /\ pc = "progress"
    /\ progress_updates >= 1
    /\ Succeeded # {}
    /\ ReturnedFailure # {}
    /\ Raised # {}

\* C3: processed_files + failed_files never exceeds total_files, and neither
\* counter ever decreases.
C3_CountersBoundedMonotone ==
    /\ [](processed_files + failed_files <= total_files)
    /\ [][/\ processed_files' >= processed_files
          /\ failed_files' >= failed_files]_vars

C3_Witness ==
    /\ pc = "fold"
    /\ processed_files >= 1
    /\ failed_files >= 1
    /\ processed_files + failed_files < total_files

\* C4: a task of batch k+1 exists only when every task of the earlier
\* batches has finished and the progress write of batch k has been made;
\* unfinished tasks all belong to one batch.
C4_BatchBarrier ==
    \A k \in DOMAIN tasks :
        tasks[k].state # "done" =>
            /\ progress_updates >= tasks[k].batch - 1
            /\ \A j \in DOMAIN tasks :
                 tasks[j].batch < tasks[k].batch => tasks[j].state = "done"
            /\ \A j \in DOMAIN tasks :
                 tasks[j].state # "done" => tasks[j].batch = tasks[k].batch

C4_Witness ==
    \E k \in DOMAIN tasks :
        /\ tasks[k].batch = 2
        /\ tasks[k].state = "running"
        /\ progress_updates = 1

\* C5: never more than max_workers process_file invocations in progress at
\* the same time, and never more than max_workers worker instances.
C5_ParallelismBoundedByPool ==
    /\ Cardinality(Running) <= max_workers
    /\ Len(workers) <= max_workers
    /\ (tasks # <<>> => Len(workers) = max_workers)

\* C6: the file at 0-based position j of a batch goes to worker index
\* j mod W, and the batches are the consecutive slices of size batch_size of
\* file_paths, in order.
C6_RoundRobinAssignment ==
    \A k \in DOMAIN tasks :
        LET j == (k - 1) % batch_size
        IN /\ tasks[k].worker_idx = j % max_workers
           /\ tasks[k].file_path = file_paths[k]
           /\ tasks[k].batch = ((k - 1) \div batch_size) + 1
           /\ tasks[k].result.kind = "result" =>
                tasks[k].result.worker_id = (j % max_workers) + 1

C6_Witness ==
    /\ batch_size > max_workers
    /\ max_workers > 1
    /\ \E k \in DOMAIN tasks : tasks[k].batch = 2 /\ tasks[k].state = "done"
    /\ \E k \in DOMAIN tasks :
         (k - 1) % batch_size >= max_workers /\ tasks[k].state = "done"

\* C7: every task that returns success=false or raises adds exactly one to
\* failed_files, its siblings and the later batches are still run and
\* counted, and _process_files does not raise once files are dispatched.
C7_FaultIsolation ==
    /\ pc \in BatchFolded =>
         /\ failed_files = Cardinality(ReturnedFailure) + Cardinality(Raised)
         /\ processed_files = Cardinality(Succeeded)
         /\ \A k \in DOMAIN tasks : tasks[k].state = "done"
    /\ exc # "none" => tasks = <<>>
    /\ pc = "returned" => Len(tasks) = Len(file_paths)

C7_Witness ==
    /\ pc = "returned"
    /\ \E k \in Raised : tasks[k].batch = 1
    /\ \E k \in Succeeded : tasks[k].batch = 1
    /\ \E k \in ReturnedFailure : tasks[k].batch = 1
    /\ \E k \in Succeeded : tasks[k].batch = 2

\* C8: when all batches finished and the run loop met no fault the status is
\* completed however many files failed; it is failed only after a fault of
\* the run loop itself.
C8_CompletedDespiteFileFailures ==
    /\ pc \in {"update_status", "returned"} =>
         /\ status = "completed"
         /\ processed_files = Cardinality(Succeeded)
         /\ failed_files = Cardinality(ReturnedFailure)
         /\ processed_files + failed_files = Len(file_paths)
    /\ status = "failed" => exc # "none"
    /\ (status = "completed" => exc = "none")

C8_Witness ==
    /\ pc = "returned"
    /\ status = "completed"
    /\ processed_files = 2
    /\ failed_files = 2

\* C9: the status moves only in_progress -> completed or in_progress ->
\* failed, a completed or failed status never changes, and end_time is
\* assigned exactly once, together with the terminal status.
C9_FinalizedOnce ==
    /\ []((status \in {"completed", "failed"}) <=> (end_time # NoTime))
    /\ [][/\ status \in {"completed", "failed"} => status' = status
          /\ status = "in_progress" =>
                status' \in {"in_progress", "completed", "failed"}
          /\ end_time # NoTime => end_time' = end_time]_vars

C9_Witness ==
    /\ pc = "returned"
    /\ status = "completed"
    /\ end_time # NoTime
    /\ db_session.status = "in_progress"

\* C10: after a run whose status is completed, worker_results holds exactly
\* one WorkerResult for each file path, succeeded or failed.
C10_OneResultPerFile ==
    status = "completed" =>
        /\ Len(worker_results) = Len(file_paths)
        /\ \A f \in DOMAIN file_paths :
             Cardinality({k \in DOMAIN worker_results :
                            /\ worker_results[k].kind = "result"
                            /\ worker_results[k].file_path = file_paths[f]}) = 1

C10_Witness ==
    /\ status = "completed"
    /\ Len(worker_results) >= 3
    /\ \E k \in DOMAIN worker_results : worker_results[k].success
    /\ \E k \in DOMAIN worker_results : ~worker_results[k].success

\* C11: every run that created a session eventually terminates with the
\* session in status completed or failed (every task and every store call
\* returning or raising), also when files fail.
C11_RunTerminates ==
    (current_session # NoSession)
        ~> (pc \in {"returned", "raised"} /\ status \in {"completed", "failed"})

C11_Witness ==
    /\ pc = "returned"
    /\ status = "completed"
    /\ total_files >= 2
    /\ failed_files = total_files

\* C16: _create_session either inserts the row (in_progress, counters 0),
\* builds a session object with the same values and makes it
\* current_session, or propagates the store error leaving no row, no session
\* object and current_session unchanged; without a session no worker and no
\* task exists.
C16_CreateSession ==
    /\ [](current_session = NoSession =>
            /\ status = "none" /\ db_session = NoRow
            /\ workers = <<>> /\ tasks = <<>>
            /\ pc \in {"discover", "create_session", "raised"})
    /\ [][pc = "create_session" =>
            \/ /\ pc' = "create_records"
               /\ current_session' # NoSession
               /\ db_session' = [status |-> "in_progress",
                                 processed_files |-> 0, failed_files |-> 0]
               /\ status' = db_session'.status
               /\ processed_files' = db_session'.processed_files
               /\ failed_files' = db_session'.failed_files
               /\ total_files' = Len(file_paths)
            \/ /\ pc' = "raised"
               /\ exc' = "PersistenceError"
               /\ current_session' = current_session
               /\ db_session' = db_session
               /\ status' = status]_vars

C16_Witness ==
    /\ pc = "raised"
    /\ exc = "PersistenceError"
    /\ current_session = NoSession
    /\ Len(file_paths) >= 1

\* C17: once the session exists a store failure (creating the per-file rows,
\* updating the progress, updating the final status) is never fatal: no
\* store error propagates out of the run or turns the status into failed.
C17_StoreFailureNeverFatal ==
    /\ (exc = "PersistenceError") => (current_session = NoSession)
    /\ status = "failed" => exc # "PersistenceError"

\* C18: when discovery finds no file the run raises before any session is
\* created: no session row, no worker, no task.
C18_NoFilesAborts ==
    Len(file_paths) = 0 =>
        /\ current_session = NoSession
        /\ status = "none"
        /\ db_session = NoRow
        /\ workers = <<>>
        /\ tasks = <<>>
        /\ pc \in {"discover", "raised"}
        /\ (pc = "raised" => exc = "ValueError")

C18_Witness ==
    /\ Len(file_paths) = 0
    /\ pc = "raised"
    /\ exc = "ValueError"

\* ---------------------------------------------------------------- worker
LastStage == w_trace[Len(w_trace)]
StageFailed(stage) ==
    Len(w_trace) > 0 /\ LastStage.stage = stage /\ ~LastStage.ok
AllStagesOk == \A k \in DOMAIN w_trace : w_trace[k].ok
ExtractionRan == Len(w_trace) = Len(Stages)
BulletLines(t) ==
    {k \in DOMAIN SplitLines(t) : IsBulletLine(SplitLines(t)[k])}

\* C12: the stages of process_file run in the order Parsing,
\* ContextRetrieval, ModelAnalysis, ResultExtraction, each at most once and
\* each only after the one before it completed without error; an error in
\* Parsing or ContextRetrieval ends the file in Failed with no later stage
\* run, and the result then has success = false, no violations and an error
\* message; Done is only reached with Parsing and ContextRetrieval completed.
C12_StageOrder ==
    /\ \A k \in DOMAIN w_trace : w_trace[k].stage = Stages[k]
    /\ \A k \in DOMAIN w_trace : k < Len(w_trace) => w_trace[k].ok
    /\ w_pc \in {Stages[k] : k \in DOMAIN Stages} =>
            /\ StageNo(w_pc) = Len(w_trace) + 1
            /\ AllStagesOk
    /\ StageFailed("Parsing") \/ StageFailed("ContextRetrieval") =>
            w_pc \in {"Failing", "Failed"}
    /\ w_pc \in {"Failing", "Failed"} =>
            StageFailed("Parsing") \/ StageFailed("ContextRetrieval")
    /\ w_pc = "Failed" =>
            /\ w_result.kind = "result"
            /\ ~w_result.success
            /\ w_result.violations = <<>>
            /\ w_result.error_message # NoError
    /\ w_pc = "Done" =>
            /\ Len(w_trace) >= 3
            /\ w_trace[1].ok /\ w_trace[2].ok
            /\ w_result.success
C12_Witness ==
    /\ w_pc = "Failed"
    /\ StageFailed("ContextRetrieval")
    /\ w_result.kind = "result"

\* C13: when the model invocation fails the file ends in Done with
\* success = true and one violation per retrieved rule, in rule order, whose
\* rule_id, confidence, severity and text come from that rule alone; no
\* retrieved rule gives no violation.
C13_FallbackPerRule ==
    StageFailed("ModelAnalysis") =>
        /\ w_pc \in {"Fallback", "Done"}
        /\ w_pc = "Done" =>
            /\ w_result.kind = "result"
            /\ w_result.success
            /\ w_result.error_message = NoError
            /\ Len(w_result.violations) = Len(w_rules)
            /\ \A k \in DOMAIN w_rules :
                /\ w_result.violations[k].rule_id = w_rules[k].rule_id
                /\ w_result.violations[k].confidence_score
                        = w_rules[k].similarity
                /\ w_result.violations[k].severity = w_rules[k].severity
                /\ w_result.violations[k].violation_description
                        = <<"Potential violation of: ">> \o w_rules[k].title
                /\ w_result.violations[k].suggested_fix
                        = Text(w_rules[k].description)
                /\ w_result.violations[k].line_number = NoneLine
C13_Witness ==
    /\ StageFailed("ModelAnalysis")
    /\ w_pc = "Done"
    /\ Len(w_rules) = 2
    /\ w_rules[1].similarity # w_rules[2].similarity
    /\ Len(w_result.violations) = 2

\* C14: when parsing, retrieval, the model call and the extraction all
\* succeeded, process_file ends in Done with success = true and the extracted
\* violations, and the orchestrator's fold counts the file as processed,
\* however many of the worker's store writes failed.
C14_StoreWritesNeverDowngrade ==
    AllStagesOk =>
        /\ w_pc \notin {"Failing", "Failed", "Fallback"}
        /\ w_pc = "Done" =>
            /\ w_result.kind = "result"
            /\ w_result.success
            /\ PyList(w_result.violations) = _parse_llm_response(w_response)
            /\ ProcessedDelta(w_result) = 1
            /\ FailedDelta(w_result) = 0
C14_Witness ==
    /\ AllStagesOk
    /\ w_pc = "Done"
    /\ w_store_errors = 3
    /\ w_result.success
    /\ w_result.violations # <<>>
    /\ w_violation_rows = <<>>

\* C15: once process_file has returned for a file and no store write failed,
\* the file's row is completed when the result has success = true and failed
\* otherwise, never pending, and get_session_results reads back the same
\* success flag.
C15_TerminalStatusPersisted ==
    w_pc \in {"Done", "Failed"} /\ w_store_errors = 0 =>
        /\ w_file_rows[w_file_path].analysis_status
                = (IF w_result.success THEN "completed" ELSE "failed")
        /\ w_file_rows[w_file_path].analysis_status # "pending"
        /\ Rehydrate(w_file_rows[w_file_path]) = w_result.success

\* C19: whenever the structured extraction does not deliver a violation list
\* (no delimited object, an object without "violations", or an object that
\* does not parse), the extracted violations are exactly one per bullet line
\* of the response, each with rule_id "manual_extract", severity medium and
\* confidence 0.7.
C19_BulletFallback ==
    ExtractionRan /\ w_response.json.kind \in {"none", "no_key", "error"} =>
        /\ w_violations.kind = "list"
        /\ Len(w_violations.items) = Cardinality(BulletLines(w_response.text))
        /\ \A k \in DOMAIN w_violations.items :
            /\ w_violations.items[k].rule_id = "manual_extract"
            /\ w_violations.items[k].severity = "medium"
            /\ w_violations.items[k].confidence_score = 70

\* ---------------------------------------------------------------- fixes
FixesAt(n) == {k \in DOMAIN f_fixes : f_fixes[k].line_number = n}
ViolationsAt(n) ==
    {k \in DOMAIN f_violations :
        ~f_violations[k].line_number.is_none
            /\ f_violations[k].line_number.n = n}

\* C20: the synthesizer returns without raising; every CodeFix it returns has
\* 1 <= line_number <= len(lines) and the content of that line as
\* original_code; a violation whose line number is null, below 1 or above
\* len(lines) yields no fix (no line has more fixes than violations).
C20_FixesInRange ==
    /\ f_pc \in {"idle", "input", "done"}
    /\ f_pc = "done" =>
        /\ \A k \in DOMAIN f_fixes :
            /\ f_fixes[k].line_number >= 1
            /\ f_fixes[k].line_number <= Len(f_lines)
            /\ f_fixes[k].original_code = f_lines[f_fixes[k].line_number]
        /\ \A n \in 1..Len(f_lines) :
            Cardinality(FixesAt(n)) <= Cardinality(ViolationsAt(n))
        /\ Len(f_fixes) <= Len(f_violations)
C20_Witness ==
    /\ f_pc = "done"
    /\ Len(f_lines) = 2
    /\ Len(f_violations) = 2
    /\ f_violations[1].line_number = Line(0)
    /\ f_violations[2].line_number = Line(2)
    /\ Len(f_fixes) = 1
    /\ f_fixes[1].original_code = f_lines[2]

\* C21: the list returned by _parse_violations_to_fixes is in non-increasing
\* order of line number.
C21_SortedDescending ==
    f_pc = "done" =>
        \A k \in 1..(Len(f_fixes) - 1) :
            f_fixes[k].line_number >= f_fixes[k + 1].line_number
C21_Witness ==
    /\ f_pc = "done"
    /\ Len(f_violations) = 2
    /\ f_violations[1].line_number = Line(1)
    /\ f_violations[2].line_number = Line(2)
    /\ Len(f_fixes) = 2
    /\ f_fixes[1].line_number = 2
    /\ f_fixes[2].line_number = 1

\* C22: every violation with an in-range line number and a non-empty
\* suggested fix has a CodeFix at its line whose fixed_code is that suggested
\* fix, leading indentation included, and whose rule id, description and
\* confidence are the violation's.
C22_SuggestedFixKept ==
    f_pc = "done" =>
        \A k \in DOMAIN f_violations :
            (/\ InRange(f_violations[k].line_number, f_lines)
             /\ ~f_violations[k].suggested_fix.is_none
             /\ f_violations[k].suggested_fix.text # <<>>) =>
                \E j \in DOMAIN f_fixes :
                    /\ f_fixes[j].line_number = f_violations[k].line_number.n
                    /\ f_fixes[j].fixed_code
                            = f_violations[k].suggested_fix.text
                    /\ f_fixes[j].rule_id = f_violations[k].rule_id
                    /\ f_fixes[j].violation_description
                            = f_violations[k].violation_description
                    /\ f_fixes[j].confidence_score
                            = f_violations[k].confidence_score

\* ---------------------------------------------------------------- diffs
\* generate_file_diff got as far as applying its fixes.
FixesApplied == d_pc \in {"generated", "reported"} /\ d_fixes # <<>>
DFixesAt(n) == {j \in DOMAIN d_fixes : d_fixes[j].line_number = n}
DViolationsAt(n) ==
    {k \in DOMAIN d_result.violations :
        d_result.violations[k].line_number = Line(n)}
FirstOf(S) == CHOOSE j \in S : \A j2 \in S : j <= j2
LastOf(S) == CHOOSE j \in S : \A j2 \in S : j >= j2
ModifiedLines == SplitLines(d_modified)
NoKeyword(description) ==
    \A kw \in {"indentation", "space", "import", "line too long", "naming",
               "convention"} : ~Mentions(description, kw)

\* C23: an in-range violation without suggested fix whose description names
\* no heuristic keyword gets the original line, unchanged, as replacement;
\* and no DiffFile lists a fix whose replacement is byte-identical to the
\* original line.
C23_DefaultIsNoOpAndFiltered ==
    FixesApplied =>
        /\ \A n \in DOMAIN d_lines :
            (/\ Cardinality(DViolationsAt(n)) = 1
             /\ Cardinality(DFixesAt(n)) = 1
             /\ \A k \in DViolationsAt(n) :
                    /\ d_result.violations[k].suggested_fix.text = <<>>
                    /\ NoKeyword(d_result.violations[k].violation_description))
                => \A j \in DFixesAt(n) : d_fixes[j].fixed_code = d_lines[n]
        /\ \A f \in DOMAIN d_diff_files :
            \A j \in DOMAIN d_diff_files[f].fixes_applied :
                d_diff_files[f].fixes_applied[j].fixed_code
                    # d_diff_files[f].fixes_applied[j].original_code

\* The text _apply_fixes returns when, on every line with fixes, the fix
\* picked by `pick` among them is the one whose replacement stays.
AppliedText(pick(_)) ==
    JoinLines([n \in DOMAIN d_lines |->
                IF DFixesAt(n) = {} THEN d_lines[n]
                ELSE RStrip(d_fixes[pick(DFixesAt(n))].fixed_code)])
FixYielded(k) ==
    _create_fix_from_violation(d_result.violations[k], d_lines,
                               d_result.file_path).kind = "fix"
BothRetained ==
    \A n \in DOMAIN d_lines :
        Cardinality(DFixesAt(n))
            = Cardinality({k \in DViolationsAt(n) : FixYielded(k)})

\* C24 as claimed: the fixes of all violations of a line are retained, and
\* after apply the line holds the replacement of the first of them in the
\* sorted list.
C24_FirstInListSurvives ==
    FixesApplied => BothRetained /\ d_modified = AppliedText(FirstOf)

\* C24 as the code has it: the fixes of all violations of a line are
\* retained, and the text put in place of the line is the right-trimmed
\* replacement of the last of them in the sorted list (the last applied).
C24_LastInListSurvives ==
    FixesApplied => BothRetained /\ d_modified = AppliedText(LastOf)
C24_Witness ==
    /\ FixesApplied
    /\ Len(d_fixes) = 2
    /\ d_fixes[1].line_number = d_fixes[2].line_number
    /\ RStrip(d_fixes[1].fixed_code) # RStrip(d_fixes[2].fixed_code)
    /\ ModifiedLines[d_fixes[2].line_number] = RStrip(d_fixes[2].fixed_code)

\* C25: the text after apply has as many lines as the original.
C25_LineCountKept ==
    FixesApplied => Len(ModifiedLines) = Len(d_lines)

\* C26: after apply a line with exactly one fix holds that fix's
\* right-trimmed replacement and not its original content, and a line with
\* no fix is as it was.
C26_ApplyFrame ==
    FixesApplied =>
        /\ Len(ModifiedLines) >= Len(d_lines)
        /\ \A n \in DOMAIN d_lines :
            /\ Cardinality(DFixesAt(n)) = 1 =>
                /\ \A j \in DFixesAt(n) :
                        ModifiedLines[n] = RStrip(d_fixes[j].fixed_code)
                /\ ModifiedLines[n] # d_lines[n]
            /\ DFixesAt(n) = {} => ModifiedLines[n] = d_lines[n]

\* C27: applying the same fixes to the edited text changes nothing.
C27_ApplyIdempotent ==
    FixesApplied => _apply_fixes(d_modified, d_fixes) = d_modified

\* C28: a DiffFile is returned only for a successful result with violations
\* for which fixes were synthesized, and it lists those fixes, at least one.
C28_NoEmptyDiffFile ==
    /\ d_diff_files # <<>> =>
        /\ d_result.success
        /\ d_result.violations # <<>>
        /\ d_fixes # <<>>
    /\ \A f \in DOMAIN d_diff_files :
        /\ d_diff_files[f].fixes_applied # <<>>
        /\ d_diff_files[f].fixes_applied = d_fixes
C28_Witness ==
    /\ d_pc = "generated"
    /\ d_io_errors = 0
    /\ d_result.success
    /\ Len(d_result.violations) = 2
    /\ d_fixes = <<>>
    /\ d_diff_files = <<>>

\* The lines difflib marks as deleted and as added, without mark and line
\* end.
Unmarked(line) == RStrip(Tail(line))
MarkedLines(mark) ==
    LET a == KeepEnds(JoinLines(d_lines))
        b == KeepEnds(d_modified)
        lines == unified_diff(a, b, d_result.file_path, <<>>)
        body == SubSeq(lines, 4, Len(lines))
        marked == SelectSeq(body, LAMBDA l : l[1] = mark)
    IN [k \in DOMAIN marked |-> Unmarked(marked[k])]
HunkLines(hunks, mark) ==
    LET all == Concat([h \in DOMAIN hunks |-> hunks[h].lines])
        marked == SelectSeq(all, LAMBDA l : l[1] = mark)
    IN [k \in DOMAIN marked |-> Unmarked(marked[k])]

\* C29: when the original and the edited text differ, parsing the rendered
\* diff gives, under the file's path, at least one hunk, and the hunks' '-'
\* and '+' lines are the lines difflib deleted and added.
C29_RenderParseRoundTrip ==
    FixesApplied /\ d_modified # JoinLines(d_lines) =>
        \E e \in DOMAIN _parse_diff_content(d_diff) :
            LET entry == _parse_diff_content(d_diff)[e]
            IN /\ entry.file = <<d_result.file_path>>
               /\ entry.hunks # <<>>
               /\ HunkLines(entry.hunks, "-") = MarkedLines("-")
               /\ HunkLines(entry.hunks, "+") = MarkedLines("+")

\* C30: with no file error, a successful result with one violation at a
\* non-empty in-range line carrying a non-empty suggested fix that differs
\* from the line gives one DiffFile with one fix, a diff of one hunk that
\* deletes the line and adds the suggested fix, and a report with
\* total_fixes_applied 1.
C30_OneViolationEndToEnd ==
    (/\ d_pc = "reported"
     /\ d_io_errors = 0
     /\ d_result.success
     /\ Len(d_result.violations) = 1
     /\ InRange(d_result.violations[1].line_number, d_lines)
     /\ d_lines[d_result.violations[1].line_number.n] # <<>>
     /\ d_result.violations[1].suggested_fix.text # <<>>
     /\ d_result.violations[1].suggested_fix.text
            # d_lines[d_result.violations[1].line_number.n]) =>
        /\ Len(d_diff_files) = 1
        /\ Len(d_diff_files[1].fixes_applied) = 1
        /\ d_diff_files[1].diff_content = d_diff
        /\ d_diff # <<>>
        /\ MarkedLines("-")
            = <<d_lines[d_result.violations[1].line_number.n]>>
        /\ MarkedLines("+") = <<d_result.violations[1].suggested_fix.text>>
        /\ d_summary.total_fixes_applied = 1

\* The parsed changes of the diff being applied, the lines a hunk finds
\* in the file it is applied to, and what the state machine of the claim
\* allows.
PatchChanges == _parse_diff_content(p_diffs[p_k].content)
DeletionsIn(lines, hunk) ==
    {k \in DOMAIN lines :
        \E h \in DOMAIN hunk.lines :
            /\ hunk.lines[h][1] = "-"
            /\ Strip(lines[k]) = Strip(Tail(hunk.lines[h]))}
LinesBefore(hunks, h) == ApplyHunks(p_tree.lines, SubSeq(hunks, 1, h - 1))
ManualReturns ==
    p_state = "ManualApplyAttempted" /\ p_state' \in {"Applied", "Failed"}
ClaimedEdges ==
    {<<"Pending", "NativeApplyAttempted">>,
     <<"NativeApplyAttempted", "Applied">>,
     <<"NativeApplyAttempted", "ManualApplyAttempted">>,
     <<"ManualApplyAttempted", "Applied">>,
     <<"ManualApplyAttempted", "Failed">>}
TraceFollows(edges) ==
    \A d \in DOMAIN p_trace :
        /\ p_trace[d][1] = "Pending"
        /\ \A n \in 1..(Len(p_trace[d]) - 1) :
            <<p_trace[d][n], p_trace[d][n + 1]>> \in edges

\* C31: manual application reports success for a diff only when every hunk
\* of every file found lines to delete in the file it was applied to; a
\* hunk whose deletions match nothing makes it report failure.
C31_UnmatchedHunkFails ==
    [][(ManualReturns /\ p_state' = "Applied") =>
        \A e \in DOMAIN PatchChanges :
            \A h \in DOMAIN PatchChanges[e].hunks :
                DeletionsIn(LinesBefore(PatchChanges[e].hunks, h),
                            PatchChanges[e].hunks[h]) # {}]_vars

\* C32: when a hunk's deletion lines occur more than once in the file,
\* manual application reports failure and leaves the file as it was.
C32_AmbiguousHunkFails ==
    [][(/\ ManualReturns
        /\ \E e \in DOMAIN PatchChanges :
            \E h \in DOMAIN PatchChanges[e].hunks :
                Cardinality(DeletionsIn(LinesBefore(PatchChanges[e].hunks, h),
                                        PatchChanges[e].hunks[h])) > 1)
            => p_state' = "Failed" /\ p_tree' = p_tree]_vars

\* C33 as claimed: the application of every diff goes Pending ->
\* NativeApplyAttempted -> {Applied, ManualApplyAttempted} -> {Applied,
\* Failed} and along no other edge.
C33_ClaimedMachine == TraceFollows(ClaimedEdges)

\* C33 as the code has it: the edges of the claim, and Failed straight from
\* Pending (no repository, diff file missing or unreadable) and straight
\* from NativeApplyAttempted (git apply ending with another exception than
\* GitCommandError); manual application only follows a failed native
\* attempt, and nothing follows Applied or Failed.
C33_PatchMachine ==
    TraceFollows(ClaimedEdges \cup {<<"Pending", "Failed">>,
                                    <<"NativeApplyAttempted", "Failed">>})
C33_Witness ==
    /\ p_trace[1] = <<"Pending", "NativeApplyAttempted",
                      "ManualApplyAttempted", "Failed">>
    /\ Len(p_trace) = 2
    /\ p_trace[2] = <<"Pending", "NativeApplyAttempted",
                      "ManualApplyAttempted", "Applied">>

FixesOfRule(rule_id) ==
    {<<k, x>> \in (DOMAIN d_diff_files) \X (1..(MaxRuleKinds + 1)) :
        /\ x \in DOMAIN d_diff_files[k].fixes_applied
        /\ d_diff_files[k].fixes_applied[x].rule_id = rule_id}
ReportedRules ==
    {d_summary.most_common_violations[pos][1] :
        pos \in DOMAIN d_summary.most_common_violations}
FixedRules ==
    {d_diff_files[k].fixes_applied[x].rule_id :
        <<k, x>> \in {<<k, x>> \in (DOMAIN d_diff_files)
                                    \X (1..(MaxRuleKinds + 1)) :
                        x \in DOMAIN d_diff_files[k].fixes_applied}}

\* C35: in the summary report total_files_modified is the number of
\* DiffFiles and total_fixes_applied the number of their fixes;
\* most_common_violations has at most ten entries, for ten different rule
\* ids when there are that many, each with the number of fixes of its rule
\* id, and no rule id left out has more fixes than one that is in.
C35_SummaryCounts ==
    d_pc = "reported" =>
        /\ d_summary.total_files_modified = Len(d_diff_files)
        /\ d_summary.total_fixes_applied
            = Cardinality(UNION {FixesOfRule(rule) : rule \in FixedRules})
        /\ Len(d_summary.most_common_violations) <= 10
        /\ Cardinality(ReportedRules)
            = Len(d_summary.most_common_violations)
        /\ Len(d_summary.most_common_violations)
            = Min(10, Cardinality(FixedRules))
        /\ \A pos \in DOMAIN d_summary.most_common_violations :
            LET entry == d_summary.most_common_violations[pos]
            IN /\ entry[1] \in FixedRules
               /\ entry[2] = Cardinality(FixesOfRule(entry[1]))
               /\ \A rule \in FixedRules \ ReportedRules :
                    Cardinality(FixesOfRule(rule)) <= entry[2]
C35_Witness ==
    /\ d_pc = "reported"
    /\ Cardinality(FixedRules) > 10
    /\ Len(d_diff_files) = 2
    /\ Len(d_diff_files[1].fixes_applied) > 10
    /\ d_diff_files[1].fixes_applied[11].rule_id
        = d_diff_files[2].fixes_applied[1].rule_id
    /\ d_summary.most_common_violations[1]
        = <<d_diff_files[2].fixes_applied[1].rule_id, 2>>

\* C36: processed_files and failed_files change only in the fold of a batch
\* whose tasks, like all tasks before them, are done; a step of a task
\* changes no field of the session; and while a task is not done the two
\* counters hold what the batches before its batch gave them.
C36_CountersWrittenAfterDrain ==
    /\ [][(processed_files' # processed_files
            \/ failed_files' # failed_files) =>
            /\ pc = "fold"
            /\ tasks' = tasks
            /\ \A k \in DOMAIN tasks : tasks[k].state = "done"]_vars
    /\ [][tasks' # tasks /\ Len(tasks') = Len(tasks) => UNCHANGED sess]_vars
    /\ []((\E k \in DOMAIN tasks : tasks[k].state # "done") =>
            /\ processed_files = Cardinality({k \in Succeeded : k <= i})
            /\ failed_files
                = Cardinality({k \in ReturnedFailure \cup Raised : k <= i}))
C36_Witness ==
    /\ pc = "gather"
    /\ processed_files = 1
    /\ failed_files = 1
    /\ \E k \in Running : tasks[k].batch = 2
    /\ \E k \in Succeeded : tasks[k].batch = 2

\* C37: whatever the response text, _parse_llm_response returns a list
\* without raising; when the JSON extraction and the bullet extraction
\* both yield no record the list is empty and the file ends with
\* success=true and no violation.
C37_ParseReturnsList ==
    ExtractionRan =>
        /\ w_violations.kind = "list"
        /\ (/\ w_response.json.kind \notin {"list", "null"}
            /\ BulletLines(w_response.text) = {}) =>
                /\ w_violations = PyList(<<>>)
                /\ w_pc = "Done"
                /\ w_result.success
                /\ w_result.violations = <<>>

\* The tasks whose results the fold loop has taken so far.
Folded ==
    {k \in DOMAIN tasks :
        k <= (IF pc = "gather" THEN i
              ELSE IF pc = "fold" THEN i + r - 1
              ELSE Len(tasks))}

\* C38: in every state the results gathered so far are those of the folded
\* tasks that returned, in order; processed_files is the number of them with
\* success and failed_files the number of them without success plus the
\* number of folded tasks that raised; when the session is completed
\* worker_results holds one result for every file but those whose task
\* raised.
C38_CountersAgreeWithResults ==
    /\ Len(all_results) = Cardinality(Folded \ Raised)
    /\ \A n \in DOMAIN all_results :
        \E k \in Folded \ Raised :
            /\ all_results[n] = tasks[k].result
            /\ Cardinality({j \in Folded \ Raised : j <= k}) = n
    /\ processed_files
        = Cardinality({n \in DOMAIN all_results : all_results[n].success})
    /\ failed_files
        = Cardinality({n \in DOMAIN all_results : ~all_results[n].success})
            + Cardinality(Folded \cap Raised)
    /\ status = "completed" =>
        /\ worker_results = all_results
        /\ Len(worker_results) = total_files - Cardinality(Raised)
C38_Witness ==
    /\ pc = "fold"
    /\ progress_updates = 1
    /\ r = 2
    /\ IsException(batch_results[1])
    /\ Len(batch_results) = 2
    /\ \E k \in Raised : tasks[k].batch = 1
    /\ \E k \in Succeeded : tasks[k].batch = 1
    /\ failed_files = 2

\* C39: every violation of the rule-based fallback has no line number, and
\* a result whose violations are those of the fallback, for any number of
\* retrieved rules, gives no CodeFix and no DiffFile.
C39_FallbackYieldsNoDiff ==
    /\ \A rules \in RuleLists :
        \A k \in DOMAIN rules :
            FallbackViolations(rules)[k].line_number = NoneLine
    /\ (/\ d_pc \in {"generated", "reported"}
        /\ \E rules \in RuleLists :
            d_result.violations = FallbackViolations(rules)) =>
            /\ d_fixes = <<>>
            /\ d_diff_files = <<>>
C39_Witness ==
    /\ d_pc = "generated"
    /\ d_io_errors = 0
    /\ d_lines # <<<<>>>>
    /\ \E rules \in RuleLists :
        /\ Len(rules) = MaxRules
        /\ d_result.violations = FallbackViolations(rules)
    /\ d_diff_files = <<>>

====
